---- MODULE Spec2Model ----
(***************************************************************************)
(* media-tracker: the smart bulk-import subsystem.                         *)
(*                                                                         *)
(*   src/src/database/db_manager.py    the SQLite store (DatabaseManager)  *)
(*   src/src/utils/import_service.py   BaseImportService and its Anime,    *)
(*                                     Movie and TV subclasses             *)
(*   src/src/ui/dialogs/import_dialog.py  ImportThread and ImportDialog    *)
(*                                                                         *)
(* Strings are sequences of one-character strings, so that lowercasing,    *)
(* punctuation stripping and whitespace collapsing are computed.  Python's *)
(* None is a sentinel of the field's own shape.                            *)
(***************************************************************************)
EXTENDS Integers, Sequences, FiniteSets, TLC

\* ------------------------------------------------------------------ bounds

\* Longest file (number of data rows) an import run reads.
MaxEntries == 2
\* Most rows the store holds; inserts are not attempted beyond it.
MaxStore == 2
\* Longest list handed to add_items_batch.
MaxBatch == 3

\* ----------------------------------------------------------------- strings

EmptyStr == << >>
\* Python None in a title field.
NoneTitle == << "None" >>

Truthy(s) == s # EmptyStr /\ s # NoneTitle

\* x or '' on a title
OrEmpty(s) == IF s = NoneTitle THEN EmptyStr ELSE s

\* index of the first occurrence of c in s, 0 if none
FirstIndex(s, c) ==
    IF \E k \in 1..Len(s) : s[k] = c
    THEN CHOOSE k \in 1..Len(s) : s[k] = c /\ \A j \in 1..(k - 1) : s[j] # c
    ELSE 0

\* The printable ASCII characters, from chr(32) on.  A character beyond ASCII
\* is written by its code point, "U+846C" (and so is the grave accent).
AsciiChars ==
    << " ", "!", "\"", "#", "$", "%", "&", "'", "(", ")", "*", "+", ",", "-",
       ".", "/", "0", "1", "2", "3", "4", "5", "6", "7", "8", "9", ":", ";",
       "<", "=", ">", "?", "@", "A", "B", "C", "D", "E", "F", "G", "H", "I",
       "J", "K", "L", "M", "N", "O", "P", "Q", "R", "S", "T", "U", "V", "W",
       "X", "Y", "Z", "[", "\\", "]", "^", "_", "U+0060", "a", "b", "c", "d", "e",
       "f", "g", "h", "i", "j", "k", "l", "m", "n", "o", "p", "q", "r", "s",
       "t", "u", "v", "w", "x", "y", "z", "{", "|", "}", "~" >>

AsciiUpper == { AsciiChars[k] : k \in 34..59 }
AsciiLower == { AsciiChars[k] : k \in 66..91 }
AsciiDigits == { AsciiChars[k] : k \in 17..26 }

\* The characters beyond ASCII that the texts of the model and the keyword
\* lists of the anime service are written with, and their code points: the
\* tab, the en and em dashes, the multiplication sign, two Hiragana, a Kangxi
\* radical and CJK ideographs.
WideChars ==
    << "U+0009", "U+2013", "U+2014",
       "U+00D7", "U+304B", "U+306A", "U+2F83", "U+4FEE", "U+53F0", "U+5408",
       "U+611F", "U+626B", "U+6293", "U+6574", "U+6B63", "U+7248", "U+7684",
       "U+81EA", "U+8299", "U+8389", "U+83B2", "U+846C", "U+8C22", "U+8D2D",
       "U+9001", "U+96C6" >>

WideOrds ==
    << 9, 8211, 8212,
       215, 12363, 12394, 12163, 20462, 21488, 21512,
       24863, 25195, 25235, 25972, 27491, 29256, 30340,
       33258, 33433, 33673, 33714, 33900, 35874, 36141,
       36865, 38598 >>

\* the characters of the model
Chars == { AsciiChars[k] : k \in 1..Len(AsciiChars) }
              \cup { WideChars[k] : k \in 1..Len(WideChars) }

\* the code point of each character
CodePoints ==
    [c \in Chars |-> IF FirstIndex(WideChars, c) > 0
                     THEN WideOrds[FirstIndex(WideChars, c)]
                     ELSE 31 + FirstIndex(AsciiChars, c)]

\* ord(c)
Ord(c) == CodePoints[c]

\* c.isascii() and c.isalpha()
IsAsciiAlpha(c) == c \in AsciiUpper \/ c \in AsciiLower

\* chr(ord(c) + 32) for the capital letters
LowerCase == [c \in AsciiUpper |-> AsciiChars[(Ord(c) + 32) - 31]]

\* str.lower() of a character: among the characters above only A..Z change
LowerChar(c) == IF c \in AsciiUpper THEN LowerCase[c] ELSE c

Lower(s) == [i \in 1..Len(s) |-> LowerChar(s[i])]

\* regex \s, str.isspace(): the space and the tab
IsSpace(c) == c = " " \/ c = "U+0009"

\* str.isdigit() of a character, regex \d
IsDigit(c) == c \in AsciiDigits

DigitVal(c) == Ord(c) - 48

\* Hiragana and Katakana (the ranges of _contains_japanese)
Kana == { c \in Chars : Ord(c) \in 12352..12447 \/ Ord(c) \in 12448..12543 }

IsKana(c) == c \in Kana

\* the ranges of _contains_cjk: the unified ideographs, extensions A and B,
\* Hiragana and Katakana
Cjk ==
    { c \in Chars : \/ Ord(c) \in 19968..40959 \/ Ord(c) \in 13312..19903
                    \/ Ord(c) \in 131072..173791 \/ c \in Kana }

IsCjk(c) == c \in Cjk

\* c.isalpha(): the ASCII letters, the ideographs and the kana; the Kangxi
\* radicals and the multiplication sign are symbols
IsAlpha(c) == IsAsciiAlpha(c) \/ IsCjk(c)

\* regex \w on str: alphanumeric or the underscore
IsWordChar(c) == IsAsciiAlpha(c) \/ IsDigit(c) \/ c = "_" \/ IsCjk(c)

\* re.sub(r'[^\w\s]', ' ', s)
StripSpecial(s) ==
    [i \in 1..Len(s) |-> IF IsWordChar(s[i]) \/ IsSpace(s[i]) THEN s[i] ELSE " "]

\* str.split(): the maximal runs of non-whitespace characters, in order
Split(s) ==
    LET IsStart(i) == ~IsSpace(s[i]) /\ (i = 1 \/ IsSpace(s[i - 1]))
        IsEnd(j) == ~IsSpace(s[j]) /\ (j = Len(s) \/ IsSpace(s[j + 1]))
        starts == SelectSeq([i \in 1..Len(s) |-> i], IsStart)
        ends == SelectSeq([i \in 1..Len(s) |-> i], IsEnd)
    IN  [k \in 1..Len(starts) |-> SubSeq(s, starts[k], ends[k])]

\* ' '.join(words)
RECURSIVE JoinWords(_)
JoinWords(ws) ==
    IF ws = << >> THEN << >>
    ELSE IF Len(ws) = 1 THEN ws[1]
    ELSE ws[1] \o << " " >> \o JoinWords(Tail(ws))

\* ' '.join(s.split())
CollapseSpaces(s) == JoinWords(Split(s))

\* -------------------------------------------------------------- media kinds

MediaTypes == {"Anime", "Movie", "TV"}

\* Python None / 0 in an id field: both are falsy in the code's tests.
NoId == 0

\* A year is None, an int (AniList's seasonYear, the store's INTEGER column)
\* or a str (TMDB's release_date[:4]).
NoYear == [typ |-> "none", val |-> 0]
IntYear(n) == [typ |-> "int", val |-> n]
StrYear(n) == [typ |-> "str", val |-> n]

\* The INTEGER affinity of column year: a text of digits is stored as an integer.
ColumnYear(y) == IF y.typ = "str" THEN IntYear(y.val) ELSE y

\* Python ==: an int never equals a str
PyEq(y1, y2) == y1 = y2

\* SQL year=?: NULL equals nothing; the parameter takes the column's affinity
SqlYearEq(col, param) == col.typ # "none" /\ param.typ # "none" /\ col = ColumnYear(param)

\* str.strip()
RECURSIVE LStrip(_)
LStrip(s) == IF s # << >> /\ IsSpace(Head(s)) THEN LStrip(Tail(s)) ELSE s

RECURSIVE RStrip(_)
RStrip(s) ==
    IF s # << >> /\ IsSpace(s[Len(s)]) THEN RStrip(SubSeq(s, 1, Len(s) - 1)) ELSE s

Strip(s) == RStrip(LStrip(s))

\* a in b on strings
Contains(b, a) ==
    \E k \in 0..(Len(b) - Len(a)) : \A i \in 1..Len(a) : b[k + i] = a[i]

\* ORDER BY title under the BINARY collation: by code point
RECURSIVE StrLess(_, _)
StrLess(s, t) ==
    IF t = << >> THEN FALSE
    ELSE IF s = << >> THEN TRUE
    ELSE IF Ord(Head(s)) # Ord(Head(t)) THEN Ord(Head(s)) < Ord(Head(t))
    ELSE StrLess(Tail(s), Tail(t))

\* length of a longest common subsequence
RECURSIVE LCS(_, _)
LCS(s, t) ==
    IF s = << >> \/ t = << >> THEN 0
    ELSE IF Head(s) = Head(t) THEN 1 + LCS(Tail(s), Tail(t))
    ELSE LET x == LCS(Tail(s), t)
             y == LCS(s, Tail(t))
         IN  IF x >= y THEN x ELSE y

\* rapidfuzz fuzz.ratio(s, t) >= pct, with ratio = 100 * 2*LCS / (len(s) + len(t))
RatioAtLeast(s, t, pct) ==
    IF Len(s) + Len(t) = 0 THEN TRUE
    ELSE 200 * LCS(s, t) >= pct * (Len(s) + Len(t))

\* ---------------------------------------------------------------- fractions

RECURSIVE GCD(_, _)
GCD(a, b) == IF b = 0 THEN a ELSE GCD(b, a % b)

\* a confidence, as the fraction num/den in lowest terms
Frac(n, d) == LET g == GCD(n, d) IN [num |-> n \div g, den |-> d \div g]

FracLE(f, g) == f.num * g.den <= g.num * f.den
FracLT(f, g) == f.num * g.den < g.num * f.den

FracMax(f, g) == IF FracLE(g, f) THEN f ELSE g

Zero == Frac(0, 1)
One == Frac(1, 1)

\* the key '_confidence' is absent: match.get('_confidence', 0) reads 0
NoConf == [num |-> 0, den |-> 0]

ConfOf(m) == IF m.conf = NoConf THEN Zero ELSE m.conf

\* ------------------------------------------------------------- title sets

\* '' in the year slot of a title set
EmptyYear == [typ |-> "empty", val |-> 0]

YearTruthy(y) == y.typ \in {"int", "str"}

\* A parsed title set; a key the dict does not hold reads None.
NoTitles ==
    [english |-> NoneTitle, romaji |-> NoneTitle, japanese |-> NoneTitle,
     chinese |-> NoneTitle, title |-> NoneTitle, year |-> NoYear]

\* any(titles.values())
AnyTitle(t) ==
    \/ Truthy(t.english) \/ Truthy(t.romaji) \/ Truthy(t.japanese)
    \/ Truthy(t.chinese) \/ Truthy(t.title) \/ YearTruthy(t.year)

\* a cache key that carries the year
NormalizeTitleForCacheWithYear(t) ==
    LET key_title == IF Truthy(t.english) THEN t.english
                     ELSE IF Truthy(t.romaji) THEN t.romaji
                     ELSE IF Truthy(t.japanese) THEN t.japanese
                     ELSE IF Truthy(t.chinese) THEN t.chinese
                     ELSE IF Truthy(t.title) THEN t.title
                     ELSE EmptyStr
        key == CollapseSpaces(StripSpecial(Lower(key_title)))
    IN  IF key # EmptyStr /\ YearTruthy(t.year) THEN key \o << " ", "y", t.year.val >>
        ELSE key

\* _normalize_title_for_cache
NormalizeTitleForCache(t) ==
    LET key_title == IF Truthy(t.english) THEN t.english
                     ELSE IF Truthy(t.romaji) THEN t.romaji
                     ELSE IF Truthy(t.japanese) THEN t.japanese
                     ELSE IF Truthy(t.chinese) THEN t.chinese
                     ELSE IF Truthy(t.title) THEN t.title
                     ELSE EmptyStr
    IN  CollapseSpaces(StripSpecial(Lower(key_title)))

\* s[p..p+3] are digits
FourDigits(s, p) == p >= 1 /\ p + 3 <= Len(s) /\ \A k \in p..(p + 3) : IsDigit(s[k])

FourDigitVal(s, p) ==
    1000 * DigitVal(s[p]) + 100 * DigitVal(s[p + 1]) + 10 * DigitVal(s[p + 2]) + DigitVal(s[p + 3])

\* \((\d{4})\) matches at p
ParenYearAt(s, p) ==
    /\ p >= 1 /\ p + 5 <= Len(s)
    /\ s[p] = "(" /\ FourDigits(s, p + 1) /\ s[p + 5] = ")"

\* (?:^|\s)(\d{4})(?:\s|$) matches at p; the digits start at the position returned, 0 if none
BareYearAt(s, p) ==
    IF p = 1 /\ FourDigits(s, 1) /\ (Len(s) = 4 \/ IsSpace(s[5])) THEN 1
    ELSE IF /\ p <= Len(s) /\ IsSpace(s[p]) /\ FourDigits(s, p + 1)
            /\ (p + 4 = Len(s) \/ IsSpace(s[p + 5])) THEN p + 1
    ELSE 0

\* _extract_year: the leftmost match of the pattern, kept if within 1950..2030
ExtractYear(s) ==
    LET hits == { p \in 1..Len(s) : ParenYearAt(s, p) \/ BareYearAt(s, p) # 0 }
        InRange(y) == IF 1950 <= y /\ y <= 2030 THEN IntYear(y) ELSE NoYear
        MatchAt(p) == InRange(FourDigitVal(s, IF ParenYearAt(s, p) THEN p + 1
                                              ELSE BareYearAt(s, p)))
    IN  IF hits = {} THEN NoYear
        ELSE MatchAt(CHOOSE q \in hits : \A r \in hits : q <= r)

\* the number of whitespace characters of s from position p on
RECURSIVE SpacesFrom(_, _)
SpacesFrom(s, p) == IF p <= Len(s) /\ IsSpace(s[p]) THEN 1 + SpacesFrom(s, p + 1) ELSE 0

\* re.sub(r'\s*\(\d{4}\)\s*', ' ', s), scanning from position p
RECURSIVE SubParenYears(_, _)
SubParenYears(s, p) ==
    IF p > Len(s) THEN << >>
    ELSE LET q == p + SpacesFrom(s, p)
         IN  IF ParenYearAt(s, q)
             THEN << " " >> \o SubParenYears(s, q + 6 + SpacesFrom(s, q + 6))
             ELSE << s[p] >> \o SubParenYears(s, p + 1)

\* MovieImportService.parse_titles_from_entry (TVImportService: the same text)
ParseMovieEntry(entry) ==
    LET Parsed(e0, year) ==
            [NoTitles EXCEPT
                !.title = IF year # NoYear THEN Strip(SubParenYears(e0, 1)) ELSE e0,
                !.year = IF year # NoYear THEN StrYear(year.val) ELSE EmptyYear]
        Stripped(e0) == Parsed(e0, ExtractYear(e0))
    IN  Stripped(Strip(entry))

\* ------------------------------------------------------- anime entry parser

\* b.startswith(a), b.endswith(a)
StartsWith(b, a) == Len(a) <= Len(b) /\ SubSeq(b, 1, Len(a)) = a

EndsWith(b, a) == Len(a) <= Len(b) /\ SubSeq(b, Len(b) - Len(a) + 1, Len(b)) = a

\* s[p:]
From(s, p) == SubSeq(s, p, Len(s))

\* regex \d+$ on a non-empty rest
AllDigits(s) == s # << >> /\ \A k \in 1..Len(s) : IsDigit(s[k])

\* re.findall(r'\[([^\]]+)\]', s)
RECURSIVE FindBrackets(_)
FindBrackets(s) ==
    IF FirstIndex(s, "[") = 0 THEN << >>
    ELSE LET rest == From(s, FirstIndex(s, "[") + 1)
             k == FirstIndex(rest, "]")
         IN  IF k >= 2
             THEN << SubSeq(rest, 1, k - 1) >> \o FindBrackets(From(rest, k + 1))
             ELSE FindBrackets(rest)

\* TECHNICAL_KEYWORDS, lines 389-427
TECHNICAL_KEYWORDS ==
    << << "B", "D", "M", "V" >>, << "D", "V", "D", "I", "S", "O" >>,
       << "D", "V", "D", "M", "V" >>, << "B", "l", "u", "R", "a", "y" >>,
       << "B", "l", "u", "-", "r", "a", "y" >>,
       << "B", "D", "-", "B", "O", "X" >>, << "B", "D", "I", "S", "O" >>,
       << "W", "e", "b", "D", "L" >>, << "W", "E", "B", "-", "D", "L" >>,
       << "W", "E", "B", "R", "i", "p" >>, << "H", "D", "R", "i", "p" >>,
       << "B", "R", "R", "i", "p" >>, << "D", "V", "D", "R", "i", "p" >>,
       << "1", "0", "8", "0", "p" >>, << "1", "0", "8", "0", "i" >>,
       << "7", "2", "0", "p" >>, << "4", "8", "0", "p" >>,
       << "4", "8", "0", "i" >>, << "2", "1", "6", "0", "p" >>,
       << "4", "K" >>, << "8", "K" >>, << "A", "V", "C" >>,
       << "H", "E", "V", "C" >>, << "H", "2", "6", "4" >>,
       << "H", ".", "2", "6", "4" >>, << "H", "2", "6", "5" >>,
       << "H", ".", "2", "6", "5" >>, << "x", "2", "6", "4" >>,
       << "x", "2", "6", "5" >>, << "M", "P", "E", "G" >>,
       << "M", "P", "E", "G", "-", "2" >>, << "V", "P", "9" >>,
       << "A", "V", "1" >>, << "A", "A", "C" >>, << "A", "C", "3" >>,
       << "E", "-", "A", "C", "3" >>, << "D", "T", "S" >>,
       << "F", "L", "A", "C" >>, << "M", "P", "3" >>,
       << "L", "P", "C", "M" >>, << "M", "K", "V" >>, << "M", "P", "4" >>,
       << "A", "V", "I" >>, << "I", "S", "O" >>, << "V", "o", "l", "." >>,
       << "V", "o", "l" >>, << "V", "o", "l", "u", "m", "e" >>,
       << "D", "I", "S", "C" >>, << "D", "i", "s", "c" >>,
       << "D", "i", "s", "k" >>, << "B", "D", "U+00D7" >>,
       << "D", "V", "D", "U+00D7" >>, << "B", "D", "x" >>,
       << "D", "V", "D", "x" >>, << "R", "1" >>, << "R", "2" >>,
       << "R", "2", "J" >>, << "R", "1", "U", "S" >>, << "U", "S", "A" >>,
       << "J", "P", "N" >>, << "J", "P" >>, << "N", "T", "S", "C" >>,
       << "P", "A", "L" >>, << "F", "i", "n" >>,
       << "R", "e", "m", "u", "x" >>, << "E", "n", "c", "o", "d", "e" >>,
       << "R", "i", "p" >>, << "S", "o", "u", "r", "c", "e" >>,
       << "N", "y", "a", "a" >>, << "U", "2" >>, << "A", "D", "C" >>,
       << "S", "h", "a", "r", "e" >>,
       << "S", "e", "l", "f", "-", "R", "i", "p" >>,
       << "S", "e", "l", "f", "-", "P", "u", "r", "c", "h", "a", "s", "e" >>,
       << "V", "C", "B", "-", "S", "t", "u", "d", "i", "o" >>,
       << "V", "C", "B" >>, << "T", "S", "D", "M" >>,
       << "K", "a", "m", "i", "g", "a", "m", "i" >>,
       << "A", "N", "K", "-", "R", "A", "W", "S" >>,
       << "p", "h", "i", "l", "o", "s", "o", "p", "h", "y", "-", "r", "a", "w", "s" >>,
       << "k", "a", "k", "e", "r", "u", "S", "M", "C" >>,
       << "L", "u", "p", "i", "n", " ", "t", "h", "e", " ", "N", "e", "r", "d" >>,
       << "t", "a", "s", "k", "f", "o", "r", "c", "e" >>,
       << "I", "o", "r", "o", "i", "d" >>, << "N", "A", "N", "0" >>,
       << "C", "T", "M" >>, << "B", "i", "k", "k", "o" >>,
       << "U+81EA", "U+6293" >>, << "U+81EA", "U+8D2D" >>,
       << "U+611F", "U+8C22" >>, << "t", "h", "a", "n", "k", "s" >>,
       << "T", "h", "a", "n", "k", "s" >>, << "U+53F0", "U+7248" >>,
       << "U+81EA", "U+626B" >>, << "U+5408", "U+96C6" >>,
       << "U+4FEE", "U+6B63" >>, << "U+6574", "U+5408" >> >>

\* AMBIGUOUS_KEYWORDS
AMBIGUOUS_KEYWORDS ==
    << << "O", "V", "A" >>, << "O", "A", "D" >>,
       << "S", "p", "e", "c", "i", "a", "l" >>,
       << "M", "o", "v", "i", "e" >>, << "M", "O", "V", "I", "E" >>,
       << "T", "V" >> >>

\* keyword.lower() for each keyword of the two lists
technical_lower == [i \in 1..Len(TECHNICAL_KEYWORDS) |-> Lower(TECHNICAL_KEYWORDS[i])]

ambiguous_lower == [i \in 1..Len(AMBIGUOUS_KEYWORDS) |-> Lower(AMBIGUOUS_KEYWORDS[i])]

\* the set_patterns of _looks_like_technical, matched from the start:
\* ^set\s+\d+$, ^vol\.?\s*\d+$, ^volume\s+\d+$, ^part\s+\d+$
SetPattern(t) ==
    LET \* word, one or more whitespace, digits
        Spaced(word) ==
            /\ StartsWith(t, word)
            /\ Len(t) > Len(word) /\ IsSpace(t[Len(word) + 1])
            /\ AllDigits(LStrip(From(t, Len(word) + 1)))
        \* vol, an optional dot, any whitespace, digits
        Vol == /\ StartsWith(t, << "v", "o", "l" >>)
               /\ \/ AllDigits(LStrip(From(t, 4)))
                  \/ Len(t) >= 4 /\ t[4] = "." /\ AllDigits(LStrip(From(t, 5)))
    IN  \/ Spaced(<< "s", "e", "t" >>)
        \/ Vol
        \/ Spaced(<< "v", "o", "l", "u", "m", "e" >>)
        \/ Spaced(<< "p", "a", "r", "t" >>)

\* the patterns of _looks_like_technical, searched anywhere in the text
TechnicalPattern(t) ==
    LET IsTimes(c) == c = "U+00D7" \/ c = "x"
        \* \s*\d+ matches at p
        SpacesDigit(p) == LET q == p + SpacesFrom(t, p)
                          IN  q <= Len(t) /\ IsDigit(t[q])
        \* \d+p$ and \d+i$
        Resolution(c) == Len(t) >= 2 /\ t[Len(t)] = c /\ IsDigit(t[Len(t) - 1])
        \* vol\.?\s*\d+
        VolAt(p) == /\ StartsWith(From(t, p), << "v", "o", "l" >>)
                    /\ \/ SpacesDigit(p + 3)
                       \/ p + 3 <= Len(t) /\ t[p + 3] = "." /\ SpacesDigit(p + 4)
        \* \s*[×x]\s*\d+ matches at p
        TimesAt(p) == LET q == p + SpacesFrom(t, p)
                      IN  q <= Len(t) /\ IsTimes(t[q]) /\ SpacesDigit(q + 1)
        \* disc?\s*[×x]\s*\d+
        DiscAt(p) == /\ StartsWith(From(t, p), << "d", "i", "s" >>)
                     /\ \/ TimesAt(p + 3)
                        \/ p + 3 <= Len(t) /\ t[p + 3] = "c" /\ TimesAt(p + 4)
        \* bd[×x]\d+
        BdAt(p) == /\ StartsWith(From(t, p), << "b", "d" >>)
                   /\ p + 3 <= Len(t) /\ IsTimes(t[p + 2]) /\ IsDigit(t[p + 3])
    IN  \/ Resolution("p")
        \/ Resolution("i")
        \/ \E p \in 1..Len(t) : VolAt(p) \/ DiscAt(p) \/ BdAt(p)
        \/ Len(t) \in {3, 4} /\ AllDigits(t)
        \/ EndsWith(t, << "r", "e", "v" >>)
        \/ Len(t) >= 3 /\ t[1] = "[" /\ t[Len(t)] = "]"

\* _looks_like_technical
LooksLikeTechnical(text) ==
    LET text_lower == Strip(Lower(text))
        has_substantial_content ==
            Len(text) > 10 /\ \E k \in 1..10 : IsAlpha(text[k])
        \* the keyword is in the text, and not as the end of a long text
        Technical(keyword_lower) ==
            /\ Contains(text_lower, keyword_lower)
            /\ ~(/\ has_substantial_content
                 /\ \/ EndsWith(text_lower, keyword_lower)
                    \/ EndsWith(text_lower, keyword_lower \o << " " >>))
        \* the text is the keyword, or short and the keyword followed by
        \* numbers and punctuation only
        Ambiguous(keyword_lower) ==
            \/ text_lower = keyword_lower
            \/ /\ Len(text) < 20
               /\ LET words == Split(text_lower)
                      rest == JoinWords(Tail(words))
                  IN  /\ words # << >> /\ words[1] = keyword_lower
                      /\ \A k \in 1..Len(rest) :
                            \/ IsDigit(rest[k]) \/ IsSpace(rest[k])
                            \/ rest[k] \in {"-", "U+00D7", "x", "."}
    IN  \/ Len(text) <= 1
        \/ Contains(text, << "@" >>)
        \/ SetPattern(text_lower)
        \/ \E i \in 1..Len(technical_lower) : Technical(technical_lower[i])
        \/ \E i \in 1..Len(ambiguous_lower) : Ambiguous(ambiguous_lower[i])
        \/ TechnicalPattern(text_lower)

\* _is_latin_text: more than 60% ASCII letters and spaces
IsLatinText(text) ==
    /\ text # << >>
    /\ 10 * Cardinality({ k \in 1..Len(text) : IsAsciiAlpha(text[k]) \/ IsSpace(text[k]) })
          > 6 * Len(text)

\* _contains_japanese
ContainsJapanese(text) == \E k \in 1..Len(text) : IsKana(text[k])

\* _contains_cjk
ContainsCjk(text) == \E k \in 1..Len(text) : IsCjk(text[k])

\* entry.split(sep), from position p on: the text up to the leftmost
\* occurrence of sep is a part, and the scan goes on behind it
RECURSIVE SplitBy(_, _, _)
SplitBy(s, sep, p) ==
    LET hits == { q \in p..(Len(s) - Len(sep) + 1) : SubSeq(s, q, q + Len(sep) - 1) = sep }
        Part(q) == << SubSeq(s, p, q - 1) >> \o SplitBy(s, sep, q + Len(sep))
    IN  IF hits = {} THEN << SubSeq(s, p, Len(s)) >>
        ELSE Part(CHOOSE q \in hits : \A r \in hits : q <= r)

\* the separators of _clean_non_bracketed_entry: a spaced hyphen, en dash or
\* em dash, two spaces, a tab
Separators ==
    << << " ", "-", " " >>, << " ", "U+2013", " " >>, << " ", "U+2014", " " >>,
       << " ", " " >>, << "U+0009" >> >>

\* for sep in [...]: the first part that is not technical and longer than 2
\* replaces the entry
RECURSIVE TakeFirstParts(_, _)
TakeFirstParts(entry, seps) ==
    IF seps = << >> THEN entry
    ELSE LET parts == SplitBy(entry, Head(seps), 1)
             good == { k \in 1..Len(parts) :
                         ~LooksLikeTechnical(parts[k]) /\ Len(parts[k]) > 2 }
         IN  IF Contains(entry, Head(seps)) /\ good # {}
             THEN TakeFirstParts(parts[CHOOSE k \in good : \A j \in good : k <= j],
                                 Tail(seps))
             ELSE TakeFirstParts(entry, Tail(seps))

\* regex \b at position p of s (between s[p - 1] and s[p])
WordBoundary(s, p) ==
    (p > 1 /\ IsWordChar(s[p - 1])) # (p <= Len(s) /\ IsWordChar(s[p]))

\* re.sub(r'\b' + re.escape(keyword) + r'\b', '', s, flags=re.IGNORECASE)
\* from position p on: the text up to the leftmost match is kept, the match
\* dropped, and the scan goes on behind it
RECURSIVE RemoveWord(_, _, _)
RemoveWord(s, keyword_lower, p) ==
    LET hits == { q \in p..(Len(s) - Len(keyword_lower) + 1) :
                    /\ Lower(SubSeq(s, q, q + Len(keyword_lower) - 1)) = keyword_lower
                    /\ WordBoundary(s, q) /\ WordBoundary(s, q + Len(keyword_lower)) }
        Cut(q) == SubSeq(s, p, q - 1) \o RemoveWord(s, keyword_lower, q + Len(keyword_lower))
    IN  IF hits = {} THEN SubSeq(s, p, Len(s))
        ELSE Cut(CHOOSE q \in hits : \A r \in hits : q <= r)

\* for keyword in self.TECHNICAL_KEYWORDS: cleaned = re.sub(...), from the
\* k-th keyword on; a keyword that the text does not hold changes nothing
RECURSIVE RemoveWords(_, _)
RemoveWords(s, k) ==
    LET held == { j \in k..Len(technical_lower) : Contains(Lower(s), technical_lower[j]) }
        Next(j) == RemoveWords(RemoveWord(s, technical_lower[j], 1), j + 1)
    IN  IF held = {} THEN s
        ELSE Next(CHOOSE j \in held : \A i \in held : j <= i)

\* _clean_non_bracketed_entry
CleanNonBracketedEntry(entry) ==
    LET Cleaned(cleaned) == IF Len(cleaned) > 2 THEN Strip(cleaned) ELSE EmptyStr
    IN  Cleaned(CollapseSpaces(
            RemoveWords(TakeFirstParts(entry, Separators), 1)))

\* junk_suffixes of _clean_extracted_title
junk_suffixes ==
    << << "U+81EA", "U+6293" >>, << "U+81EA", "U+8D2D" >>,
       << "U+611F", "U+8C22" >>, << "U+53F0", "U+7248" >>,
       << "U+2F83", "U+6293" >>, << "U+2F83", "U+8D2D" >>,
       << "U+5408", "U+96C6" >>, << "U+4FEE", "U+6B63" >>,
       << "U+6574", "U+5408" >> >>

\* for suffix in junk_suffixes: if title.endswith(suffix): cut and strip
RECURSIVE CutSuffixes(_, _)
CutSuffixes(title, suffixes) ==
    IF suffixes = << >> THEN title
    ELSE IF EndsWith(title, Head(suffixes))
         THEN CutSuffixes(Strip(SubSeq(title, 1, Len(title) - Len(Head(suffixes)))),
                          Tail(suffixes))
         ELSE CutSuffixes(title, Tail(suffixes))

\* re.sub(r'\s*(?:VCB-Studio|TSDM|Kamigami).*$', '', title, flags=re.IGNORECASE)
CutGroupNames(title) ==
    LET names == { << "v", "c", "b", "-", "s", "t", "u", "d", "i", "o" >>,
                   << "t", "s", "d", "m" >>,
                   << "k", "a", "m", "i", "g", "a", "m", "i" >> }
        at == { p \in 1..Len(title) :
                  \E n \in names : StartsWith(From(Lower(title), p), n) }
    IN  IF at = {} THEN title
        ELSE RStrip(SubSeq(title, 1, (CHOOSE p \in at : \A q \in at : p <= q) - 1))

\* _clean_extracted_title.  Its two patterns about '@' never match: the title
\* is a bracket that _looks_like_technical let pass, so it holds no '@'.
CleanExtractedTitle(title) ==
    IF title = << >> THEN title
    ELSE Strip(CutGroupNames(CutSuffixes(title, junk_suffixes)))

RECURSIVE SelectNonTechnical(_)
SelectNonTechnical(bs) ==
    IF bs = << >> THEN << >>
    ELSE IF ~LooksLikeTechnical(Head(bs)) /\ Len(Head(bs)) > 1
         THEN << Head(bs) >> \o SelectNonTechnical(Tail(bs))
         ELSE SelectNonTechnical(Tail(bs))

\* the language of a bracket, as the loop of parse_titles_from_entry tests it
Language(bracket) ==
    IF bracket = << >> THEN "none"
    ELSE IF ContainsJapanese(bracket) THEN "japanese"
    ELSE IF IsLatinText(bracket) THEN "latin"
    ELSE IF ContainsCjk(bracket) THEN "chinese"
    ELSE "none"

\* the stripped brackets of one language, in order
RECURSIVE SelectLanguage(_, _)
SelectLanguage(bs, lang) ==
    IF bs = << >> THEN << >>
    ELSE LET b == Strip(Head(bs))
         IN  IF Language(b) = lang
             THEN << b >> \o SelectLanguage(Tail(bs), lang)
             ELSE SelectLanguage(Tail(bs), lang)

\* latin_brackets.sort(key=len, reverse=True)[0]: the first of the longest
LongestFirst(bs) ==
    bs[CHOOSE k \in 1..Len(bs) :
            /\ \A j \in 1..Len(bs) : Len(bs[j]) <= Len(bs[k])
            /\ \A j \in 1..(k - 1) : Len(bs[j]) < Len(bs[k])]

BothLatin(t) ==
    [NoTitles EXCEPT !.english = t, !.romaji = t, !.japanese = EmptyStr, !.chinese = EmptyStr]

\* the titles assigned from the brackets of each language
ByLanguage(latin_brackets, japanese_brackets, chinese_brackets) ==
    LET best_latin == IF latin_brackets = << >> THEN EmptyStr
                      ELSE CleanExtractedTitle(LongestFirst(latin_brackets))
    IN  [BothLatin(best_latin) EXCEPT
            !.japanese = IF japanese_brackets = << >> THEN EmptyStr
                         ELSE CleanExtractedTitle(japanese_brackets[1]),
            !.chinese = IF chinese_brackets = << >> THEN EmptyStr
                        ELSE chinese_brackets[1]]

\* parse_titles_from_entry taking a bracket-free entry of any length as the
\* title, the short ones cleaned
ParseAnimeEntryAnyLength(entry) ==
    LET brackets == FindBrackets(entry)
        non_technical_brackets == SelectNonTechnical(brackets)
    IN  IF brackets = << >>
        THEN IF Len(entry) < 100
             THEN BothLatin(CleanNonBracketedEntry(entry))
             ELSE BothLatin(entry)
        ELSE IF non_technical_brackets = << >>
             THEN BothLatin(CleanNonBracketedEntry(entry))
             ELSE ByLanguage(SelectLanguage(non_technical_brackets, "latin"),
                             SelectLanguage(non_technical_brackets, "japanese"),
                             SelectLanguage(non_technical_brackets, "chinese"))

\* AnimeImportService.parse_titles_from_entry
ParseAnimeEntry(entry) ==
    LET brackets == FindBrackets(entry)
        non_technical_brackets == SelectNonTechnical(brackets)
    IN  IF brackets = << >>
        THEN IF Len(entry) < 100
             THEN BothLatin(CleanNonBracketedEntry(entry))
             ELSE BothLatin(EmptyStr)
        ELSE IF non_technical_brackets = << >>
             THEN BothLatin(CleanNonBracketedEntry(entry))
             ELSE ByLanguage(SelectLanguage(non_technical_brackets, "latin"),
                             SelectLanguage(non_technical_brackets, "japanese"),
                             SelectLanguage(non_technical_brackets, "chinese"))

ParseTitlesFromEntry(kind, entry) ==
    IF kind = "Anime" THEN ParseAnimeEntry(entry) ELSE ParseMovieEntry(entry)

\* -------------------------------------------------------------- candidates

\* A candidate dict of a catalog client.  conf is the '_confidence' key.
Cand(id, title, romaji, native, year) ==
    [id |-> id, title |-> title, romaji_title |-> romaji, native_title |-> native,
     year |-> year, conf |-> NoConf]

WordCount(s) == Len(Split(s))

Abs(n) == IF n < 0 THEN -n ELSE n

\* the variant test without the word-count condition of the short titles
StrictVariantPassesAnyWordCount(search_lower, variant) ==
    LET swc == WordCount(search_lower)
    IN  /\ variant # EmptyStr
        /\ IF swc = 1 THEN RatioAtLeast(search_lower, variant, 85)
           ELSE IF swc = 2 THEN RatioAtLeast(search_lower, variant, 80)
           ELSE RatioAtLeast(search_lower, variant, 70)

\* _filter_strict_matches: does one title variant of the candidate pass?
StrictVariantPasses(search_lower, variant) ==
    LET swc == WordCount(search_lower)
        vwc == WordCount(variant)
    IN  /\ variant # EmptyStr
        /\ IF swc <= 2
           THEN /\ Abs(vwc - swc) <= 1
                /\ IF swc = 1
                   THEN RatioAtLeast(search_lower, variant, 85)
                   ELSE RatioAtLeast(search_lower, variant, 80)
           ELSE RatioAtLeast(search_lower, variant, 70)

StrictKeeps(search_lower, m) ==
    \/ StrictVariantPasses(search_lower, Strip(Lower(OrEmpty(m.title))))
    \/ StrictVariantPasses(search_lower, Strip(Lower(OrEmpty(m.romaji_title))))
    \/ StrictVariantPasses(search_lower, Strip(Lower(OrEmpty(m.native_title))))

RECURSIVE StrictSelect(_, _)
StrictSelect(search_lower, ms) ==
    IF ms = << >> THEN << >>
    ELSE IF StrictKeeps(search_lower, Head(ms))
         THEN << Head(ms) >> \o StrictSelect(search_lower, Tail(ms))
         ELSE StrictSelect(search_lower, Tail(ms))

\* AnimeImportService._filter_strict_matches
FilterStrictMatches(search_title, matches) ==
    IF ~Truthy(search_title) \/ matches = << >> THEN matches
    ELSE StrictSelect(Strip(Lower(search_title)), matches)

\* AnimeImportService._clean_title_for_search; the season and part markers
\* need letters the model's titles do not hold
RECURSIVE DropParenYears(_, _)
DropParenYears(s, p) ==
    IF p > Len(s) THEN << >>
    ELSE IF ParenYearAt(s, p) THEN DropParenYears(s, p + 6)
    ELSE << s[p] >> \o DropParenYears(s, p + 1)

CleanTitleForSearch(title) ==
    Strip(CollapseSpaces(StripSpecial(DropParenYears(title, 1))))

\* set(s.split())
WordSet(s) == { Split(s)[k] : k \in 1..Len(Split(s)) }

\* the partial signal from substring containment alone
PartialPairContainedOnly(s_title, m_title) ==
    IF Contains(m_title, s_title) \/ Contains(s_title, m_title) THEN Frac(7, 10) ELSE Zero

\* the partial signal of one (search title, candidate title) pair
PartialPair(s_title, m_title) ==
    LET contained == IF Contains(m_title, s_title) \/ Contains(s_title, m_title)
                     THEN Frac(7, 10) ELSE Zero
        s_words == WordSet(s_title)
        m_words == WordSet(m_title)
        overlap == IF s_words # {} /\ m_words # {}
                   THEN Frac(8 * Cardinality(s_words \cap m_words),
                             10 * Cardinality(s_words \cup m_words))
                   ELSE Zero
    IN  FracMax(contained, overlap)

RECURSIVE FracMaxOf(_)
FracMaxOf(fs) == IF fs = << >> THEN Zero ELSE FracMax(Head(fs), FracMaxOf(Tail(fs)))

\* AnimeImportService.calculate_confidence
AnimeConfidence(titles, match) ==
    LET m_en == Lower(OrEmpty(match.title))
        m_ro == Lower(OrEmpty(match.romaji_title))
        m_na == Lower(OrEmpty(match.native_title))
        s_en == Lower(OrEmpty(titles.english))
        s_ro == Lower(OrEmpty(titles.romaji))
        s_jp == Lower(OrEmpty(titles.japanese))
        english_match == s_en # EmptyStr /\ s_en = m_en
        romaji_match == s_ro # EmptyStr /\ s_ro = m_ro
        japanese_match == s_jp # EmptyStr /\ s_jp = m_na
        exact == IF english_match /\ japanese_match THEN One
                 ELSE IF (english_match \/ romaji_match) /\ japanese_match THEN Frac(98, 100)
                 ELSE IF english_match THEN Frac(95, 100)
                 ELSE IF romaji_match \/ japanese_match THEN Frac(90, 100)
                 ELSE Zero
        Pair(s_title, m_title) == IF s_title # EmptyStr /\ m_title # EmptyStr
                                  THEN PartialPair(s_title, m_title)
                                  ELSE Zero
        BestOf(pairs) == FracMaxOf([k \in 1..Len(pairs) |-> Pair(pairs[k][1], pairs[k][2])])
        partial == BestOf(<< << s_en, m_en >>, << s_en, m_ro >>, << s_en, m_na >>,
                             << s_ro, m_en >>, << s_ro, m_ro >>, << s_ro, m_na >>,
                             << s_jp, m_en >>, << s_jp, m_ro >>, << s_jp, m_na >> >>)
        Best(exact_score) == IF exact_score # Zero THEN exact_score ELSE partial
    IN  Best(exact)

\* title_ratio + year_bonus of MovieImportService.calculate_confidence, before
\* min(1.0, ...) is applied
MovieRawScore(titles, match) ==
    LET search_title == Strip(Lower(OrEmpty(titles.title)))
        match_title == Strip(Lower(OrEmpty(match.title)))
        total == Len(search_title) + Len(match_title)
        bonus == IF YearTruthy(titles.year) /\ YearTruthy(match.year)
                 THEN IF titles.year.val = match.year.val THEN 2
                      ELSE IF Abs(titles.year.val - match.year.val) <= 1 THEN 1
                      ELSE 0
                 ELSE 0
    IN  IF search_title = EmptyStr \/ match_title = EmptyStr THEN Zero
        ELSE Frac(20 * LCS(search_title, match_title) + bonus * total, 10 * total)

\* MovieImportService.calculate_confidence (TVImportService: the same text)
MovieConfidence(titles, match) ==
    LET search_title == Strip(Lower(OrEmpty(titles.title)))
        match_title == Strip(Lower(OrEmpty(match.title)))
        total == Len(search_title) + Len(match_title)
        \* year_bonus in tenths
        bonus == IF YearTruthy(titles.year) /\ YearTruthy(match.year)
                 THEN IF titles.year.val = match.year.val THEN 2
                      ELSE IF Abs(titles.year.val - match.year.val) <= 1 THEN 1
                      ELSE 0
                 ELSE 0
        sum == Frac(20 * LCS(search_title, match_title) + bonus * total, 10 * total)
    IN  IF search_title = EmptyStr \/ match_title = EmptyStr THEN Zero
        ELSE IF FracLE(One, sum) THEN One ELSE sum

CalculateConfidence(kind, titles, match) ==
    IF kind = "Anime" THEN AnimeConfidence(titles, match) ELSE MovieConfidence(titles, match)

\* -------------------------------------------------------- duplicate checker

\* get_match_id / get_id_field_name: the id column of the service's kind
IdOf(kind, row) == IF kind = "Anime" THEN row.anilist_id ELSE row.tmdb_id

RECURSIVE InsertByTitle(_, _)
InsertByTitle(sorted, row) ==
    IF sorted = << >> THEN << row >>
    ELSE IF StrLess(row.title, Head(sorted).title)
         THEN << row >> \o sorted
         ELSE << Head(sorted) >> \o InsertByTitle(Tail(sorted), row)

RECURSIVE OrderByTitle(_, _)
OrderByTitle(rows, acc) ==
    IF rows = << >> THEN acc
    ELSE OrderByTitle(Tail(rows), InsertByTitle(acc, Head(rows)))

RECURSIVE RowsOfType(_, _)
RowsOfType(rows, media_type) ==
    IF rows = << >> THEN << >>
    ELSE IF Head(rows).media_type = media_type
         THEN << Head(rows) >> \o RowsOfType(Tail(rows), media_type)
         ELSE RowsOfType(Tail(rows), media_type)

\* get_items without the WHERE clause
GetItemsOfAnyType(rows, media_type) == OrderByTitle(rows, << >>)

\* DatabaseManager.get_items(media_type): WHERE media_type = ? ORDER BY title
\* (rows of equal title in rowid order)
GetItems(rows, media_type) == OrderByTitle(RowsOfType(rows, media_type), << >>)

NotDuplicate == [is_dup |-> FALSE, session |-> FALSE, title |-> NoneTitle, year |-> NoYear]

\* check_duplicate with the store consulted before the session set
CheckDuplicateStoreFirst(match, kind, added, rows) ==
    LET Hit(row) == \/ IdOf(kind, row) # NoId /\ IdOf(kind, row) = match.id
                    \/ row.title = match.title /\ PyEq(row.year, match.year)
        Found(row) == [is_dup |-> TRUE, session |-> FALSE,
                       title |-> row.title, year |-> row.year]
        Among(existing) ==
            LET hits == { k \in 1..Len(existing) : Hit(existing[k]) }
            IN  IF hits # {}
                THEN Found(existing[CHOOSE j \in hits : \A i \in hits : j <= i])
                ELSE IF match.id # NoId /\ match.id \in added
                THEN [is_dup |-> TRUE, session |-> TRUE,
                      title |-> match.title, year |-> match.year]
                ELSE NotDuplicate
    IN  Among(GetItems(rows, kind))

\* BaseImportService.check_duplicate: (is_duplicate, description); session
\* stands for the description's suffix "[added in this import]"
CheckDuplicate(match, kind, added, rows) ==
    LET Hit(row) == \/ IdOf(kind, row) # NoId /\ IdOf(kind, row) = match.id
                    \/ row.title = match.title /\ PyEq(row.year, match.year)
        Found(row) == [is_dup |-> TRUE, session |-> FALSE,
                       title |-> row.title, year |-> row.year]
        Among(existing) ==
            LET hits == { k \in 1..Len(existing) : Hit(existing[k]) }
            IN  IF match.id # NoId /\ match.id \in added
                THEN [is_dup |-> TRUE, session |-> TRUE,
                      title |-> match.title, year |-> match.year]
                ELSE IF hits # {}
                THEN Found(existing[CHOOSE j \in hits : \A i \in hits : j <= i])
                ELSE NotDuplicate
    IN  Among(GetItems(rows, kind))

\* ------------------------------------------------------------------ outcomes

\* MIN_CONFIDENCE = 0.35
MinConfidence == Frac(35, 100)

\* ImportResult; message is the text without its numbers, counts the numbers
\* the text shows, in its order, and cached the " [cached search]" at its end
Result(text, titles, matches, status, message, cached, confidence) ==
    [original_text |-> text, parsed_titles |-> titles, matches |-> matches,
     status |-> status, message |-> message, counts |-> << >>, cached |-> cached,
     confidence |-> confidence]

\* match['_confidence'] = calculate_confidence(titles, match), for each match
ScoreAll(kind, titles, ms) ==
    [k \in 1..Len(ms) |-> [ms[k] EXCEPT !.conf = CalculateConfidence(kind, titles, ms[k])]]

RECURSIVE FilterConfident(_)
FilterConfident(ms) ==
    IF ms = << >> THEN << >>
    ELSE IF FracLE(MinConfidence, ConfOf(Head(ms)))
         THEN << Head(ms) >> \o FilterConfident(Tail(ms))
         ELSE FilterConfident(Tail(ms))

RECURSIVE InsertByConf(_, _)
InsertByConf(sorted, m) ==
    IF sorted = << >> THEN << m >>
    ELSE IF FracLT(ConfOf(Head(sorted)), ConfOf(m))
         THEN << m >> \o sorted
         ELSE << Head(sorted) >> \o InsertByConf(Tail(sorted), m)

\* the matches if they were left in the order of the search
SortByConfSkipped(ms, acc) == acc \o ms

\* matches.sort(key=confidence, reverse=True): stable, highest first
RECURSIVE SortByConf(_, _)
SortByConf(ms, acc) ==
    IF ms = << >> THEN acc
    ELSE SortByConf(Tail(ms), InsertByConf(acc, Head(ms)))

\* the count if one duplicate were to make every match a duplicate
DupCountAll(ms, kind, added, rows) ==
    IF \E k \in 1..Len(ms) : CheckDuplicate(ms[k], kind, added, rows).is_dup
    THEN Len(ms) ELSE 0

\* len(duplicate_matches)
DupCount(ms, kind, added, rows) ==
    Cardinality({ k \in 1..Len(ms) : CheckDuplicate(ms[k], kind, added, rows).is_dup })

\* the outcome of an entry if an exception of the scoring or of the duplicate
\* check were swallowed and the matches reported as they are
EntryOutcomeUnguarded(kind, entry, titles, matches, was_cached, added, rows, fault) ==
    LET Outcome(kept) ==
            IF matches = << >>
            THEN Result(entry, titles, << >>, "no_match", "No matches found", FALSE, Zero)
            ELSE IF kept = << >>
            THEN Result(entry, titles, << >>, "no_match",
                        "No matches with sufficient confidence", FALSE, Zero)
            ELSE Result(entry, titles, kept, "success",
                        "Found match(es)", was_cached, ConfOf(kept[1]))
    IN  Outcome(SortByConf(FilterConfident(ScoreAll(kind, titles, matches)), << >>))

\* import_file, lines 285-355: the outcome of an entry whose search returned
\* matches; fault is the step that raised ("none", "score" or "dupcheck")
EntryOutcome(kind, entry, titles, matches, was_cached, added, rows, fault) ==
    LET \* dups: len(duplicate_matches); new: len(new_matches)
        Found(kept, dups, new) ==
            IF dups > 0 /\ new = 0
            THEN [Result(entry, titles, kept, "duplicate",
                         "All match(es) already in database", was_cached,
                         ConfOf(kept[1])) EXCEPT !.counts = << dups >>]
            ELSE IF dups > 0 /\ new > 0
            THEN [Result(entry, titles, kept, "partial_duplicate",
                         "Found new match(es) and duplicate(s)", was_cached,
                         ConfOf(kept[1])) EXCEPT !.counts = << new, dups >>]
            ELSE [Result(entry, titles, kept, "success",
                         "Found match(es)", was_cached,
                         ConfOf(kept[1])) EXCEPT !.counts = << new >>]
        \* kept: the matches of sufficient confidence, best first; dups: how
        \* many of them check_duplicate reports; new: how many it does not
        Outcome(kept, dups, new) ==
            IF matches = << >>
            THEN Result(entry, titles, << >>, "no_match", "No matches found", FALSE, Zero)
            ELSE IF fault = "score"
            THEN Result(entry, titles, << >>, "error", "Search error", FALSE, Zero)
            ELSE IF kept = << >>
            THEN Result(entry, titles, << >>, "no_match",
                        "No matches with sufficient confidence", FALSE, Zero)
            ELSE IF fault = "dupcheck"
            THEN Result(entry, titles, << >>, "error", "Search error", FALSE, Zero)
            ELSE Found(kept, dups, new)
        NewCount(kept) ==
            Cardinality({ k \in 1..Len(kept) :
                             ~CheckDuplicate(kept[k], kind, added, rows).is_dup })
        Kept(kept) == Outcome(kept, DupCount(kept, kind, added, rows), NewCount(kept))
    IN  Kept(SortByConf(FilterConfident(ScoreAll(kind, titles, matches)), << >>))

\* ------------------------------------------------------------ the catalogs

T_ab == << "a", "b" >>
T_ab_b == << "a", "b", " ", "b" >>
T_abbb == << "a", "b", "b", "b" >>
T_bbbb == << "b", "b", "b", "b" >>

\* AniList records (anilist_client.search_anime, get_anime_with_relations)
A1 == Cand(1, T_ab, T_ab, NoneTitle, IntYear(1999))
A2 == Cand(2, T_ab_b, T_ab_b, NoneTitle, IntYear(2000))

\* TMDB records (tmdb_client.search_movie, search_tv): year is release_date[:4]
M1 == Cand(1, T_ab, NoneTitle, NoneTitle, StrYear(1999))
M2 == Cand(2, T_abbb, NoneTitle, NoneTitle, StrYear(1999))
M3 == Cand(3, T_bbbb, NoneTitle, NoneTitle, NoYear)

\* what a title search of the kind's catalog may answer
SearchResponses(kind) ==
    IF kind = "Anime"
    THEN { << >>, << A1 >>, << A2, A1 >> }
    ELSE { << >>, << M1 >>, << M3 >>, << M3, M2, M1 >> }

\* what get_anime_with_relations(best_id) may answer: nothing (the request
\* failed), the anime alone, or the anime followed by a related one
RelationResponses(best_id) ==
    LET main == IF best_id = 1 THEN A1 ELSE A2
        other == IF best_id = 1 THEN A2 ELSE A1
    IN  { << >>, << main >>, << main, other >> }

\* The offline database holds one anime, indexed under its normalized title.
OfflineTitle == T_ab

\* OfflineAnimeMatcher._normalize_title
OfflineNormalize(title) ==
    CollapseSpaces([i \in 1..Len(title) |->
        IF title[i] = "!" THEN " " ELSE LowerChar(title[i])])

\* match_titles if it also collected the generic title
OfflineMatchAnyKey(titles) ==
    LET Hits(t) == /\ Truthy(t)
                   /\ RatioAtLeast(OfflineNormalize(t), OfflineNormalize(OfflineTitle), 85)
    IN  IF Hits(titles.english) \/ Hits(titles.romaji) \/ Hits(titles.japanese)
           \/ Hits(titles.chinese) \/ Hits(titles.title)
        THEN OfflineTitle
        ELSE EmptyStr

\* OfflineAnimeMatcher.match_titles(titles, min_score=85): the title of the
\* best hit, '' when there is none
OfflineMatch(titles) ==
    LET Hits(t) == /\ Truthy(t)
                   /\ RatioAtLeast(OfflineNormalize(t), OfflineNormalize(OfflineTitle), 85)
    IN  IF Hits(titles.english) \/ Hits(titles.romaji) \/ Hits(titles.japanese)
           \/ Hits(titles.chinese)
        THEN OfflineTitle
        ELSE EmptyStr

\* ------------------------------------------------------------- search_media

\* the list itself, its dicts shared with the caller
ShareDicts(ms) == [dicts |-> ms, fresh |-> FALSE]

\* [dict(m) for m in ms]: new dicts with the same items
CopyDicts(ms) == [dicts |-> ms, fresh |-> TRUE]

\* all_matches.extend(ms), without seen_ids
DedupAppendAll(all, ms) == all \o ms

\* for m in ms: if m['id'] not in seen_ids: all_matches.append(m); seen_ids.add(m['id'])
RECURSIVE DedupAppend(_, _)
DedupAppend(all, ms) ==
    IF ms = << >> THEN all
    ELSE IF \E k \in 1..Len(all) : all[k].id = Head(ms).id
         THEN DedupAppend(all, Tail(ms))
         ELSE DedupAppend(Append(all, Head(ms)), Tail(ms))

\* search_media is at a remote call ...
Call(tier, query, best_id, all) ==
    [pc |-> "call", tier |-> tier, query |-> query, best_id |-> best_id,
     all |-> all, stored |-> FALSE, cached |-> FALSE, alias |-> FALSE,
     year |-> NoYear]

\* ... or returns (all, cached), having stored a copy of the list in the cache
\* or not; alias: the dicts returned are the very dicts the cache holds
Return(all, stored, cached) ==
    [pc |-> "return", tier |-> "done", query |-> EmptyStr, best_id |-> NoId,
     all |-> all, stored |-> stored, cached |-> cached,
     alias |-> (stored \/ cached) /\ ~CopyDicts(all).fresh,
     year |-> NoYear]

TierNames == << "offline", "english", "romaji", "japanese", "cleaned", "chinese" >>

\* the conditions if the Japanese strategy ran whatever has been collected
TierAppliesUngated(n, titles, all, loaded) ==
    CASE n = 1 -> loaded /\ Truthy(OfflineMatch(titles))
      [] n = 2 -> Truthy(titles.english)
      [] n = 3 -> /\ Len(all) = 0 /\ Truthy(titles.romaji)
                  /\ titles.romaji # OrEmpty(titles.english)
      [] n = 4 -> Truthy(titles.japanese)
      [] n = 5 -> /\ Len(all) = 0 /\ Truthy(titles.english)
                  /\ CleanTitleForSearch(titles.english) # EmptyStr
                  /\ CleanTitleForSearch(titles.english) # titles.english
      [] n = 6 -> /\ Len(all) = 0 /\ Truthy(titles.chinese)
                  /\ \E k \in 1..Len(titles.chinese) : IsAsciiAlpha(titles.chinese[k])
      [] OTHER -> FALSE

\* the condition under which a strategy of AnimeImportService.search_media runs
TierApplies(n, titles, all, loaded) ==
    CASE n = 1 -> loaded /\ Truthy(OfflineMatch(titles))
      [] n = 2 -> Truthy(titles.english)
      [] n = 3 -> /\ Len(all) = 0 /\ Truthy(titles.romaji)
                  /\ titles.romaji # OrEmpty(titles.english)
      [] n = 4 -> Len(all) = 0 /\ Truthy(titles.japanese)
      [] n = 5 -> /\ Len(all) = 0 /\ Truthy(titles.english)
                  /\ CleanTitleForSearch(titles.english) # EmptyStr
                  /\ CleanTitleForSearch(titles.english) # titles.english
      [] n = 6 -> /\ Len(all) = 0 /\ Truthy(titles.chinese)
                  /\ \E k \in 1..Len(titles.chinese) : IsAsciiAlpha(titles.chinese[k])
      [] OTHER -> FALSE

\* the title a strategy searches with
TierQuery(n, titles) ==
    CASE n = 1 -> OfflineMatch(titles)
      [] n = 2 -> titles.english
      [] n = 3 -> titles.romaji
      [] n = 4 -> titles.japanese
      [] n = 5 -> CleanTitleForSearch(titles.english)
      [] OTHER -> titles.chinese

\* the strategies run on as in search_media, but the list is returned without
\* being stored
GotoForgets(from, titles, all, loaded) ==
    LET At(n) == Call(TierNames[n], TierQuery(n, titles), NoId, all)
        First(able) == IF able = {}
                       THEN Return(all, FALSE, FALSE)
                       ELSE At(CHOOSE m \in able : \A j \in able : m <= j)
    IN  First({ n \in from..6 : TierApplies(n, titles, all, loaded) })

\* run on from strategy number from: the next remote call, or the final
\* "if cache_key: store" and return
Goto(from, titles, all, loaded) ==
    LET At(n) == Call(TierNames[n], TierQuery(n, titles), NoId, all)
        First(able) == IF able = {}
                       THEN Return(all, NormalizeTitleForCache(titles) # EmptyStr, FALSE)
                       ELSE At(CHOOSE m \in able : \A j \in able : m <= j)
    IN  First({ n \in from..6 : TierApplies(n, titles, all, loaded) })

\* strategy 0 entered although match_titles raises
OfflineUsableIgnoresRaise(loaded, raises) == loaded

\* strategy 0 of search_media yields hits only if the matcher exists and is
\* loaded and match_titles does not raise (the except clause of line 808)
OfflineUsable(loaded, raises) == loaded /\ ~raises

\* int(year_str) if year_str and year_str.isdigit() else None
YearArg(year) == IF year.typ = "str" THEN IntYear(year.val) ELSE NoYear

\* search_media up to its first remote call; the TMDB search is called with
\* (title, year)
SearchBegin(kind, titles, cache, loaded) ==
    LET cache_key == NormalizeTitleForCache(titles)
    IN  IF cache_key # EmptyStr /\ cache_key \in DOMAIN cache
        THEN Return(cache[cache_key], FALSE, TRUE)
        ELSE IF kind = "Anime" THEN Goto(1, titles, << >>, loaded)
        ELSE IF ~Truthy(titles.title) THEN Return(<< >>, FALSE, FALSE)
        ELSE [Call("tmdb", titles.title, NoId, << >>) EXCEPT
                 !.year = YearArg(titles.year)]

\* search_media from the answer resp of the remote call s is at
SearchResume(titles, s, resp, loaded) ==
    LET \* the strategy ends search_media's pass at r (a remote call or a
        \* return), or search_media runs on from strategy number from
        At(r) == [from |-> 0, all |-> << >>, r |-> r]
        On(from, all) == [from |-> from, all |-> all, r |-> << >>]
        \* strict: the strict filter's pick of resp; all2, all3: all_matches
        \* extended by resp, by strict
        Strategy(cache_key, strict, all2, all3) ==
            CASE s.tier = "tmdb" -> At(Return(resp, cache_key # EmptyStr, FALSE))
              [] s.tier = "offline" ->
                    IF strict # << >> /\ strict[1].id # NoId
                    THEN At(Call("offline_rel", s.query, strict[1].id, s.all))
                    ELSE On(2, s.all)
              [] s.tier = "offline_rel" ->
                    IF all2 # << >> THEN At(Return(all2, TRUE, FALSE))
                    ELSE On(2, all2)
              [] s.tier = "english" ->
                    IF all3 = << >> THEN On(3, all3)
                    ELSE IF all3[1].id # NoId
                         THEN At(Call("english_rel", s.query, all3[1].id, all3))
                         ELSE At(Return(all3, TRUE, FALSE))
              [] s.tier = "english_rel" -> At(Return(all2, TRUE, FALSE))
              [] s.tier = "romaji" ->
                    IF Len(all2) >= 3 THEN At(Return(all2, TRUE, FALSE))
                    ELSE On(4, all2)
              [] s.tier = "japanese" ->
                    IF Len(all2) >= 3 THEN At(Return(all2, TRUE, FALSE))
                    ELSE On(5, all2)
              [] s.tier = "cleaned" -> On(6, all2)
              [] OTHER -> On(7, all2)
        Continue(step) == IF step.from = 0 THEN step.r
                          ELSE Goto(step.from, titles, step.all, loaded)
    IN  Continue(Strategy(NormalizeTitleForCache(titles),
                          FilterStrictMatches(s.query, resp),
                          DedupAppend(s.all, resp),
                          DedupAppend(s.all, FilterStrictMatches(s.query, resp))))

\* search_media when the remote call s is at raises: "raise" if the exception
\* leaves search_media
SearchRaise(titles, s, loaded) ==
    CASE s.tier = "tmdb" -> Return(<< >>, FALSE, FALSE)
      [] s.tier \in {"offline", "offline_rel"} -> Goto(2, titles, s.all, loaded)
      [] OTHER -> [Return(<< >>, FALSE, FALSE) EXCEPT !.pc = "raise"]

\* self.search_cache[cache_key] = [dict(m) for m in all_matches]
CacheStore(cache, cache_key, all) ==
    [k \in DOMAIN cache \cup {cache_key} |->
        IF k = cache_key THEN CopyDicts(all).dicts ELSE cache[k]]

\* the cache once the caller has attached a confidence to every dict that
\* search_media returned
CacheAfterScoring(cache, cache_key, alias, scored) ==
    IF alias /\ cache_key \in DOMAIN cache
    THEN [cache EXCEPT ![cache_key] = scored]
    ELSE cache

\* -------------------------------------------------------------------- state

VARIABLES
    store,          \* committed rows of media_items, in rowid order
    txn,            \* add_items_batch: the open transaction's rows, or NoTxn
    b_items,        \* add_items_batch: the items argument
    b_skip,         \* add_items_batch: skip_duplicates
    b_idx,          \* add_items_batch: index of the item the loop is at
    b_pc,           \* add_items_batch: "idle" | "loop" | "returned" | "raised"
    b_result,       \* add_items_batch: the result dict's counters
    b_before,       \* history: the store when add_items_batch was called
    b_fault,        \* history: the probe or insert that raised, or "none"
    kind,           \* the import service's media type
    offline_loaded, \* self.offline_matcher and self.offline_matcher.loaded
    search_cache,   \* self.search_cache: cache key -> list of candidates
    added_in_session, \* self.added_in_session
    w_pc,           \* ImportThread: "idle" | "start" | "run" | "call" | "returned"
    w_file,         \* the file import_file was given
    w_i,            \* import_file: index of the entry the loop is at
    w_results,      \* import_file: the list results
    w_titles,       \* import_file: titles of the entry being searched
    srch,           \* search_media: the remote call it is at, or NoSearch
    s_count,        \* search_media: pacing waits and remote calls of this call
    events,         \* history: the callbacks of this import_file call, in order
    last,           \* history: how the last search_media call ended
    h_ops,          \* history: what this import_file call has done so far
    h_store0,       \* history: the store when import_file was called
    sigq,           \* Qt: signals emitted by the thread, not yet delivered
    import_results, \* ImportDialog.import_results
    import_in_progress, \* ImportDialog.import_in_progress
    import_button,  \* ImportDialog.import_button.isEnabled()
    add_buttons,    \* add_all_button and add_selected_button .isEnabled()
    pending,        \* ImportThreads started while another runs, run() not yet begun
    details,        \* ImportDialog.details_text: the match it describes
    clock,          \* time.time() - last_request_time, and the calls' spacing
    rq,             \* AniListClient._make_request: the request in progress
    h_add,          \* history: the last add_matches_to_db call since the import began
    h_srch,         \* history: the online strategies alone, beside a degraded search
    direct          \* a method of the service called on its own: arguments and result

batchVars == << txn, b_items, b_skip, b_idx, b_pc, b_result, b_before, b_fault >>

serviceVars == << kind, offline_loaded, search_cache, added_in_session >>

workerVars == << w_pc, w_file, w_i, w_results, w_titles, srch, s_count,
                 events, last, h_ops, h_store0 >>

dialogVars == << sigq, import_results, import_in_progress, import_button, add_buttons,
                 pending >>

probeVars == << details, clock, rq, h_add, h_srch, direct >>

vars == << store, batchVars, serviceVars, workerVars, dialogVars, probeVars >>

NoTxn == << [closed |-> TRUE] >>

\* MediaItem, with the fields DatabaseManager reads and writes (models.py
\* declares no romaji_title; the rows are taken as add_item's INSERT names them)
Item(title, year, mt, tmdb, anilist) ==
    [title |-> title, year |-> year, media_type |-> mt, tmdb_id |-> tmdb, anilist_id |-> anilist]

\* INSERT INTO media_items: the row as the columns hold it
InsertRow(rows, item) ==
    Append(rows, [item EXCEPT !.year = ColumnYear(item.year)])

\* the probe by title and year alone
CheckDuplicateByTitleYear(item, rows) ==
    \E i \in 1..Len(rows) :
        /\ rows[i].title = item.title
        /\ SqlYearEq(rows[i].year, item.year)
        /\ rows[i].media_type = item.media_type

\* SELECT COUNT(*) ... > 0, first by API id, then by title and year
CheckDuplicateByIdImpl(item, rows) ==
    LET byAnilist == \E i \in 1..Len(rows) :
                        /\ rows[i].anilist_id = item.anilist_id
                        /\ rows[i].media_type = item.media_type
        byTmdb    == \E i \in 1..Len(rows) :
                        /\ rows[i].tmdb_id = item.tmdb_id
                        /\ rows[i].media_type = item.media_type
        byTitle   == \E i \in 1..Len(rows) :
                        /\ rows[i].title = item.title
                        /\ SqlYearEq(rows[i].year, item.year)
                        /\ rows[i].media_type = item.media_type
    IN  IF item.media_type = "Anime" /\ item.anilist_id # NoId
        THEN byAnilist \/ byTitle
        ELSE IF item.tmdb_id # NoId
             THEN byTmdb \/ byTitle
             ELSE byTitle

\* conn.rollback(): the transaction's rows are dropped, the committed rows stay
RollbackKeepsPartial(committed, open) == open

Rollback(committed, open) == committed

\* conn.commit()
Commit(committed, open) == open

\* ------------------------------------------------------ the import's state

NoSearch == [Call("none", EmptyStr, NoId, << >>) EXCEPT !.pc = "none"]

NoCount == [waits |-> 0, calls |-> 0]

\* _rate_limit_wait() and the remote call that follows it
Issue(c) == [waits |-> c.waits + 1, calls |-> c.calls + 1]

NoFile == [format |-> "none", entries |-> << >>]

NoLast ==
    [valid |-> FALSE, titles |-> NoTitles, key |-> EmptyStr, had |-> FALSE,
     matches |-> << >>, was_cached |-> FALSE, stored |-> FALSE, raised |-> FALSE,
     fault |-> "none", entry |-> 0, waits |-> 0, calls |-> 0]

NoOps == [parsed |-> 0, searched |-> 0, queried |-> 0]

\* nothing is selected in the results tree
NoDetails == [valid |-> FALSE]

\* RATE_LIMIT_DELAY = 2.5 seconds, in units of 1.25 seconds
RateLimitDelay == 2

\* clock.elapsed: time.time() - self.last_request_time in these units, counted
\* up to one more than the delay; clock.slept: what the last _rate_limit_wait
\* slept; clock.gap: the time between the last remote call and the one before.
\* last_request_time = 0: the delay has long elapsed, no call was issued yet
NoClock == [elapsed |-> RateLimitDelay + 1, slept |-> 0, gap |-> RateLimitDelay + 1]

\* _rate_limit_wait that sets last_request_time without sleeping
RateLimitWaitNoSleep(c) == [elapsed |-> 0, slept |-> 0, gap |-> c.elapsed]

\* _rate_limit_wait if the movie and TV services did not sleep in it
RateLimitWaitAnimeOnly(c) ==
    LET Slept(secs) == [elapsed |-> 0, slept |-> secs, gap |-> c.elapsed + secs]
    IN  Slept(IF kind = "Anime" /\ c.elapsed < RateLimitDelay
              THEN RateLimitDelay - c.elapsed ELSE 0)

\* _rate_limit_wait(), the remote call following at once: sleep for the rest of
\* the delay, then last_request_time = time.time()
RateLimitWait(c) ==
    LET Slept(secs) == [elapsed |-> 0, slept |-> secs, gap |-> c.elapsed + secs]
    IN  Slept(IF c.elapsed < RateLimitDelay THEN RateLimitDelay - c.elapsed ELSE 0)

\* AniListClient._make_request: max_retries and base_delay
MaxRetries == 3

BaseDelay == 5

\* no request in progress
NoRequest == [pc |-> "idle"]

\* _make_request retrying while retry_count <= max_retries
MakeRequestOneMore(r, status, body) ==
    LET Ended(data) == [r EXCEPT !.pc = "done", !.attempts = @ + 1, !.status = status,
                                 !.data = data]
    IN  IF status = 429
        THEN IF r.retry_count <= MaxRetries
             THEN [r EXCEPT !.attempts = @ + 1, !.status = status,
                            !.slept = Append(@, BaseDelay * (2 ^ r.retry_count)),
                            !.retry_count = @ + 1]
             ELSE Ended([none |-> TRUE])
        ELSE IF status = 200 THEN Ended(body)
        ELSE Ended([none |-> TRUE])

\* AniListClient._make_request at the answer to its POST; status 0: post raised
\* a RequestException, another status but 200 and 429: raise_for_status did.
\* On 429 with retries left it sleeps and calls itself with retry_count + 1
MakeRequest(r, status, body) ==
    LET Ended(data) == [r EXCEPT !.pc = "done", !.attempts = @ + 1, !.status = status,
                                 !.data = data]
    IN  IF status = 429
        THEN IF r.retry_count < MaxRetries
             THEN [r EXCEPT !.attempts = @ + 1, !.status = status,
                            !.slept = Append(@, BaseDelay * (2 ^ r.retry_count)),
                            !.retry_count = @ + 1]
             ELSE Ended([none |-> TRUE])
        ELSE IF status = 200 THEN Ended(body)
        ELSE Ended([none |-> TRUE])

\* add_matches_to_db has not been called
NoAdd == [valid |-> FALSE, matches |-> << >>, ok |-> {}, added_count |-> 0,
          store0 |-> << >>, added0 |-> {}]

\* no search_media call of this import yet
NoTrace == [valid |-> FALSE, degraded |-> FALSE]

\* no method is being called on its own
NoCall == [pc |-> "none"]

\* no import thread yet, a file chosen in the dialog; added: the ids accepted
\* so far
ServiceIdle(k, loaded, added) ==
    /\ kind = k
    /\ offline_loaded = loaded
    /\ search_cache = << >>
    /\ added_in_session = added
    /\ w_pc = "idle"
    /\ w_file = NoFile
    /\ w_i = 0
    /\ w_results = << >>
    /\ w_titles = NoTitles
    /\ srch = NoSearch
    /\ s_count = NoCount
    /\ events = << >>
    /\ last = NoLast
    /\ h_ops = NoOps
    /\ h_store0 = << >>
    /\ sigq = << >>
    /\ import_results = << >>
    /\ import_in_progress = FALSE
    /\ import_button = TRUE
    /\ add_buttons = FALSE
    /\ pending = 0
    /\ details = NoDetails
    /\ clock = NoClock
    /\ rq = NoRequest
    /\ h_add = NoAdd
    /\ h_srch = NoTrace

\* the service as __init__ leaves it: self.added_in_session = set()
ImportIdle(k, loaded) == ServiceIdle(k, loaded, {})

\* ----------------------------------------------------- add_items_batch

T_a == << "a" >>
T_b == << "b" >>

BatchItems ==
    { Item(T_a, IntYear(1999), "Movie", 1, NoId),
      Item(T_b, NoYear, "Movie", 2, NoId),
      Item(T_a, IntYear(1999), "Anime", NoId, 1),
      Item(T_b, IntYear(2000), "Movie", 1, NoId) }

RECURSIVE SeqsUpTo(_, _)
SeqsUpTo(S, n) ==
    IF n = 0 THEN { << >> }
    ELSE LET shorter == SeqsUpTo(S, n - 1)
         IN  shorter \cup { Append(s, x) : s \in { t \in shorter : Len(t) = n - 1 }, x \in S }

BatchStores ==
    { << >>,
      << Item(T_a, IntYear(1999), "Movie", 1, NoId) >> }

ZeroResult == [added |-> 0, skipped |-> 0, errors |-> 0]

BatchIdle ==
    /\ txn = NoTxn
    /\ b_items = << >>
    /\ b_skip = TRUE
    /\ b_idx = 0
    /\ b_pc = "idle"
    /\ b_result = ZeroResult
    /\ b_fault = "none"

InitBatch ==
    /\ store \in BatchStores
    /\ b_before = store
    /\ BatchIdle
    /\ ImportIdle("Movie", FALSE)
    /\ direct = NoCall

\* add_items_batch(items, skip_duplicates) up to BEGIN TRANSACTION
BatchCall ==
    /\ b_pc \in {"idle", "returned", "raised"}
    /\ \E items \in SeqsUpTo(BatchItems, MaxBatch), skip \in BOOLEAN :
        /\ b_items' = items
        /\ b_skip' = skip
        /\ b_result' = ZeroResult
        /\ b_before' = store
        /\ b_fault' = "none"
        /\ IF items = << >>
           THEN b_pc' = "returned" /\ txn' = NoTxn /\ b_idx' = 0
           ELSE b_pc' = "loop" /\ txn' = store /\ b_idx' = 1
    /\ UNCHANGED << store, serviceVars, workerVars, dialogVars, probeVars >>

\* one pass of "for item in items": the probe, then the INSERT
BatchItem ==
    /\ b_pc = "loop"
    /\ b_idx <= Len(b_items)
    /\ LET item == b_items[b_idx]
           Fail(what) ==
               /\ b_result' = [b_result EXCEPT !.errors = @ + 1]
               /\ store' = Rollback(store, txn)
               /\ txn' = NoTxn
               /\ b_pc' = "raised"
               /\ b_fault' = what
               /\ UNCHANGED b_idx
       IN \/ Fail("probe")
          \/ /\ CheckDuplicateByIdImpl(item, txn)
             /\ b_skip
             /\ b_result' = [b_result EXCEPT !.skipped = @ + 1]
             /\ b_idx' = b_idx + 1
             /\ UNCHANGED << store, txn, b_pc, b_fault >>
          \/ /\ CheckDuplicateByIdImpl(item, txn)
             /\ ~b_skip
             /\ Fail("duplicate")
          \/ /\ ~CheckDuplicateByIdImpl(item, txn)
             /\ Fail("insert")
          \/ /\ ~CheckDuplicateByIdImpl(item, txn)
             /\ txn' = InsertRow(txn, item)
             /\ b_result' = [b_result EXCEPT !.added = @ + 1]
             /\ b_idx' = b_idx + 1
             /\ UNCHANGED << store, b_pc, b_fault >>
    /\ UNCHANGED << b_items, b_skip, b_before >>
    /\ UNCHANGED << serviceVars, workerVars, dialogVars, probeVars >>

\* conn.commit(), conn.close(), return result
BatchCommit ==
    /\ b_pc = "loop"
    /\ b_idx > Len(b_items)
    /\ store' = Commit(store, txn)
    /\ txn' = NoTxn
    /\ b_pc' = "returned"
    /\ UNCHANGED << b_items, b_skip, b_idx, b_result, b_before, b_fault >>
    /\ UNCHANGED << serviceVars, workerVars, dialogVars, probeVars >>

NextBatch == BatchCall \/ BatchItem \/ BatchCommit

SpecBatch == InitBatch /\ [][NextBatch]_vars

\* ------------------------------------------------------------ Claim C1

\* C1: strict batch mode is all-or-nothing: once the duplicate probe or the
\* insert of any item has raised, the exception has reached the caller and the
\* store holds exactly the rows it held before the call (none of the batch's
\* items, those before the failing one included); and no row of an unfinished
\* batch is visible in the committed store.
C1_BatchAllOrNothing ==
    /\ b_fault # "none" => (b_pc = "raised" /\ store = b_before)
    /\ b_pc = "loop" => store = b_before

\* an item after the first raised on insert, earlier items having been inserted
C1_Witness ==
    /\ b_pc = "raised"
    /\ b_fault = "insert"
    /\ b_idx > 1
    /\ b_result.added >= 1

\* ------------------------------------------------------------ import_file

T_br_AB == << "[", "A", "B", "]" >>
T_bangs == << "!", "!", "!" >>
T_AB_1999 == << "A", "B", " ", "(", "1", "9", "9", "9", ")" >>
T_ab_2000 == << "a", "b", " ", "(", "2", "0", "0", "0", ")" >>
\* a cell of 100 characters without brackets
T_long == [i \in 1..100 |-> "a"]

\* first cells of the data rows that a file of the kind may hold
EntryTexts(k) ==
    IF k = "Anime" THEN { T_br_AB, T_ab, T_bangs, T_long }
    ELSE { T_ab, T_AB_1999, T_ab_2000 }

\* the files: an unsupported extension, a container that parse_ods_file or
\* parse_excel_file fails on, or a readable one with its entries
Files(k) ==
    { [format |-> "unsupported", entries |-> << >>],
      [format |-> "corrupt", entries |-> << >>] }
    \cup { [format |-> "ok", entries |-> es] : es \in SeqsUpTo(EntryTexts(k), MaxEntries) }

\* lines 237-243: parse_ods_file or parse_excel_file returns the entries
FileAlwaysParses(file) == TRUE

FileParses(file) == file.format = "ok"

\* self.search_cache.clear()
KeepCache(cache) == cache

ClearCache(cache) == << >>

\* self.added_in_session.clear()
ClearAdded(added) == {}

\* a callback of import_file: progress_callback(current, total, entry[:50]) or
\* result_callback(result)
\* progress_callback(i + 1, total_entries, entry[:50])
ProgressEvent(current, total, entry) ==
    [type |-> "progress", current |-> current, total |-> total,
     text |-> SubSeq(entry, 1, IF Len(entry) < 50 THEN Len(entry) ELSE 50),
     status |-> "none"]

ResultEvent(result) ==
    [type |-> "result", current |-> 0, total |-> 0, text |-> result.original_text,
     status |-> result.status]

NoResult == Result(EmptyStr, NoTitles, << >>, "none", "none", FALSE, Zero)

\* a queued signal of ImportThread
Signal(name, result) == [sig |-> name, result |-> result]

\* rows the store may hold when the dialog opens
InitStores(k) ==
    LET other == IF k = "Movie" THEN "TV" ELSE "Movie"
    IN  IF k = "Anime"
        THEN { << >>,
               << Item(T_ab, IntYear(1999), "Anime", NoId, 1) >>,
               << Item(T_ab, IntYear(1999), other, 1, NoId),
                  Item(T_ab_b, IntYear(2000), "Anime", NoId, NoId) >> }
        ELSE { << >>,
               << Item(T_ab, IntYear(1999), k, 1, NoId) >>,
               << Item(T_ab, IntYear(1999), other, 1, NoId),
                  Item(T_abbb, IntYear(1999), k, NoId, NoId) >> }

Init ==
    /\ \E k \in MediaTypes :
        /\ \E loaded \in (IF k = "Anime" THEN BOOLEAN ELSE {FALSE}) : ImportIdle(k, loaded)
        /\ store \in InitStores(k)
    /\ b_before = store
    /\ BatchIdle
    /\ direct = NoCall

MaxPending == 1

\* self.import_thread = ImportThread(...); self.import_thread.start(): the
\* thread's run() begins at once when no other ImportThread is running, and
\* otherwise waits to be scheduled while the running one goes on (of the
\* interleavings of two running threads, the model follows those in which the
\* later thread begins after the earlier one has returned)
ThreadStarts ==
    IF w_pc \in {"idle", "returned"}
    THEN w_pc' = "start" /\ UNCHANGED pending
    ELSE pending < MaxPending /\ pending' = pending + 1 /\ UNCHANGED w_pc

\* start_import without the two setEnabled(False) of the add buttons
StartImportKeepsButtons ==
    /\ import_button
    /\ ThreadStarts
    /\ import_in_progress' = TRUE
    /\ import_button' = FALSE
    /\ import_results' = << >>
    /\ h_add' = NoAdd
    /\ details' = NoDetails
    /\ UNCHANGED << store, batchVars, serviceVars, sigq, add_buttons >>
    /\ UNCHANGED << clock, rq, h_srch, direct >>
    /\ UNCHANGED << w_file, w_i, w_results, w_titles, srch, s_count, events, last,
                    h_ops, h_store0 >>

\* ImportDialog.start_import, up to import_thread.start()
StartImport ==
    /\ import_button
    /\ ThreadStarts
    /\ import_in_progress' = TRUE
    /\ import_button' = FALSE
    /\ add_buttons' = FALSE
    /\ import_results' = << >>
    /\ h_add' = NoAdd
    /\ details' = NoDetails
    /\ UNCHANGED << store, batchVars, serviceVars, sigq >>
    /\ UNCHANGED << clock, rq, h_srch, direct >>
    /\ UNCHANGED << w_file, w_i, w_results, w_titles, srch, s_count, events, last,
                    h_ops, h_store0 >>

\* import_file, lines 228-258, on the file at file_path: the session state is
\* cleared and the file read;
\* on a file-level error ImportThread.run goes on to emit import_finished
ImportFileBegin ==
    /\ w_pc = "start"
    /\ w_file' \in Files(kind)
    /\ w_titles' = NoTitles
    /\ search_cache' = ClearCache(search_cache)
    /\ added_in_session' = ClearAdded(added_in_session)
    /\ h_store0' = store
    /\ h_ops' = NoOps
    /\ last' = NoLast
    /\ w_i' = 1
    /\ IF FileParses(w_file')
       THEN /\ w_results' = << >>
            /\ events' = << >>
            /\ w_pc' = "run"
            /\ UNCHANGED sigq
       ELSE LET error_result == Result(EmptyStr, NoTitles, << >>, "error",
                                       "Failed to parse file", FALSE, Zero)
            IN  /\ w_results' = << error_result >>
                /\ events' = << ResultEvent(error_result) >>
                /\ w_pc' = "returned"
                /\ sigq' = sigq \o << Signal("result_ready", error_result),
                                      Signal("import_finished", NoResult) >>
    /\ h_srch' = NoTrace
    /\ UNCHANGED << store, batchVars, kind, offline_loaded, srch, s_count >>
    /\ UNCHANGED << details, clock, rq, h_add, direct >>
    /\ UNCHANGED << import_results, import_in_progress, import_button, add_buttons, pending >>

\* the outcome appended once but handed to result_callback twice
EmitResultTwice(result, evs, sigs) ==
    /\ w_results' = Append(w_results, result)
    /\ events' = evs \o << ResultEvent(result), ResultEvent(result) >>
    /\ sigq' = sigs \o << Signal("result_ready", result), Signal("result_ready", result) >>
    /\ w_i' = w_i + 1
    /\ w_pc' = "run"
    /\ srch' = NoSearch
    /\ s_count' = NoCount

\* the outcome emitted and the entry after this one passed over
EmitResultSkips(result, evs, sigs) ==
    /\ w_results' = Append(w_results, result)
    /\ events' = Append(evs, ResultEvent(result))
    /\ sigq' = Append(sigs, Signal("result_ready", result))
    /\ w_i' = w_i + 2
    /\ w_pc' = "run"
    /\ srch' = NoSearch
    /\ s_count' = NoCount

\* the outcome emitted as if result_callback were called before the entry's
\* progress_callback
EmitResultBeforeProgress(result, evs, sigs) ==
    /\ w_results' = Append(w_results, result)
    /\ events' = Append(SubSeq(evs, 1, Len(evs) - 1), ResultEvent(result))
                     \o << evs[Len(evs)] >>
    /\ sigq' = Append(sigs, Signal("result_ready", result))
    /\ w_i' = w_i + 1
    /\ w_pc' = "run"
    /\ srch' = NoSearch
    /\ s_count' = NoCount

\* results.append(result); result_callback(result); on to the next entry
EmitResult(result, evs, sigs) ==
    /\ w_results' = Append(w_results, result)
    /\ events' = Append(evs, ResultEvent(result))
    /\ sigq' = Append(sigs, Signal("result_ready", result))
    /\ w_i' = w_i + 1
    /\ w_pc' = "run"
    /\ srch' = NoSearch
    /\ s_count' = NoCount

\* import_file, lines 283-367, from the point where search_media has ended as
\* r (returned, or raised) after count waits and calls; fault: the scoring or
\* the duplicate check of a match raises
FinishEntry(entry, titles, r, count, had, ops, evs, sigs) ==
    \E fault \in {"none", "score", "dupcheck"} :
        LET \* all_scored: r.all with the confidences attached; result: the
            \* entry's outcome
            Finish(cache_key, all_scored, result) ==
                LET cache1 == IF r.stored THEN CacheStore(search_cache, cache_key, r.all)
                              ELSE search_cache
                    scored == r.pc = "return" /\ r.all # << >> /\ fault # "score"
                    checked == IF r.pc = "raise" \/ result.message \in
                                    {"No matches found", "No matches with sufficient confidence"}
                                  \/ fault = "score"
                               THEN 0
                               ELSE IF fault = "dupcheck" THEN 1
                               ELSE Cardinality({ k \in 1..Len(result.matches) :
                                        ~CheckDuplicate(result.matches[k], kind,
                                                        added_in_session, store).session })
                IN  /\ fault = "score" => (r.pc = "return" /\ r.all # << >>)
                    /\ fault = "dupcheck" =>
                          /\ r.pc = "return"
                          /\ FilterConfident(all_scored) # << >>
                    /\ search_cache' = IF scored
                                       THEN CacheAfterScoring(cache1, cache_key, r.alias,
                                                              all_scored)
                                       ELSE cache1
                    /\ last' = [valid |-> TRUE, titles |-> titles, key |-> cache_key,
                                had |-> had, matches |-> r.all, was_cached |-> r.cached,
                                stored |-> r.stored, raised |-> r.pc = "raise",
                                fault |-> fault, entry |-> w_i,
                                waits |-> count.waits, calls |-> count.calls]
                    /\ h_ops' = [ops EXCEPT !.queried = @ + checked]
                    /\ EmitResult(result, evs, sigs)
        IN  Finish(NormalizeTitleForCache(titles),
                   ScoreAll(kind, titles, r.all),
                   IF r.pc = "raise"
                   THEN Result(entry, titles, << >>, "error", "Search error", FALSE, Zero)
                   ELSE EntryOutcome(kind, entry, titles, r.all, r.cached,
                                     added_in_session, store, fault))

\* one pass of "for i, entry in enumerate(entries)" up to the first remote call
\* of search_media, or to the end of the pass if there is none
ProcessEntry ==
    /\ w_pc = "run"
    /\ w_i <= Len(w_file.entries)
    /\ LET entry == w_file.entries[w_i]
           evs == Append(events, ProgressEvent(w_i, Len(w_file.entries), entry))
           \* progress_updated only moves the progress bar and the status
           \* label, which the model does not hold: it is not queued
           sigs == sigq
           parsed == [h_ops EXCEPT !.parsed = @ + 1]
           searched == [parsed EXCEPT !.searched = @ + 1]
           \* r: search_media at its first remote call or at its end
           Search(titles, cache_key, r) ==
               /\ w_titles' = titles
               /\ IF ~AnyTitle(titles)
                  THEN /\ EmitResult(Result(entry, titles, << >>, "error",
                                            "Could not extract any titles from entry",
                                            FALSE, Zero), evs, sigs)
                       /\ h_ops' = parsed
                       /\ UNCHANGED << search_cache, last >>
                  ELSE IF r.pc = "call"
                  THEN /\ srch' = r
                       /\ s_count' = Issue(NoCount)
                       /\ w_pc' = "call"
                       /\ events' = evs
                       /\ sigq' = sigs
                       /\ h_ops' = searched
                       /\ UNCHANGED << search_cache, last, w_results, w_i >>
                  ELSE FinishEntry(entry, titles, r, NoCount,
                                   cache_key # EmptyStr /\ cache_key \in DOMAIN search_cache,
                                   searched, evs, sigs)
           \* the online strategies alone, run beside a search whose offline
           \* index is unusable
           Online(titles, cache_key) ==
               IF cache_key # EmptyStr /\ cache_key \in DOMAIN search_cache
               THEN Return(search_cache[cache_key], FALSE, TRUE)
               ELSE Goto(2, titles, << >>, FALSE)
           \* degraded: the matcher is missing or not loaded, or match_titles raises
           Traced(titles, degraded, raises) ==
               h_srch' = IF kind = "Anime" /\ AnyTitle(titles)
                         THEN [valid |-> TRUE, degraded |-> degraded, raises |-> raises,
                               entry |-> w_i,
                               shadow |-> IF degraded
                                          THEN Online(titles, NormalizeTitleForCache(titles))
                                          ELSE NoSearch]
                         ELSE NoTrace
           Parsed(titles, usable, raises) ==
               /\ Search(titles, NormalizeTitleForCache(titles),
                         SearchBegin(kind, titles, search_cache, usable))
               /\ Traced(titles, ~offline_loaded \/ raises, raises)
       IN  \* raises: match_titles raises in this search_media call
           \E raises \in (IF kind = "Anime" /\ offline_loaded THEN BOOLEAN ELSE {FALSE}) :
               Parsed(ParseTitlesFromEntry(kind, entry),
                      OfflineUsable(offline_loaded, raises), raises)
    /\ UNCHANGED << store, batchVars, kind, offline_loaded, added_in_session >>
    /\ UNCHANGED << details, rq, h_add, direct >>
    /\ clock' = IF w_pc' = "call" THEN RateLimitWait(clock) ELSE clock
    /\ UNCHANGED << w_file, h_store0 >>
    /\ UNCHANGED << import_results, import_in_progress, import_button, add_buttons, pending >>

\* what the remote call search_media is at may answer
Answers ==
    IF srch.tier \in {"offline_rel", "english_rel"}
    THEN RelationResponses(srch.best_id)
    ELSE SearchResponses(kind)

\* the remote call returns resp: search_media runs on to its next remote call
\* or to its end, and import_file to the end of the pass
RemoteReturns ==
    /\ w_pc = "call"
    /\ \E resp \in Answers :
        LET Resumed(r) ==
                IF r.pc = "call"
                THEN /\ srch' = r
                     /\ s_count' = Issue(s_count)
                     /\ UNCHANGED << search_cache, last, h_ops, w_results, w_i, w_pc,
                                     events, sigq >>
                ELSE FinishEntry(w_file.entries[w_i], w_titles, r, s_count, FALSE,
                                 h_ops, events, sigq)
        IN  /\ Resumed(SearchResume(w_titles, srch, resp, offline_loaded))
            /\ h_srch' = IF h_srch.degraded /\ h_srch.shadow.pc = "call"
                          THEN [h_srch EXCEPT !.shadow = SearchResume(w_titles, @, resp, FALSE)]
                          ELSE h_srch
    /\ UNCHANGED << store, batchVars, kind, offline_loaded, added_in_session >>
    /\ UNCHANGED << details, rq, h_add, direct >>
    /\ clock' = IF w_pc' = "call" THEN RateLimitWait(clock) ELSE clock
    /\ UNCHANGED << w_file, w_titles, h_store0 >>
    /\ UNCHANGED << import_results, import_in_progress, import_button, add_buttons, pending >>

\* the remote call raises
RemoteRaises ==
    /\ w_pc = "call"
    /\ LET Resumed(r) ==
               IF r.pc = "call"
               THEN /\ srch' = r
                    /\ s_count' = Issue(s_count)
                    /\ UNCHANGED << search_cache, last, h_ops, w_results, w_i, w_pc,
                                    events, sigq >>
               ELSE FinishEntry(w_file.entries[w_i], w_titles, r, s_count, FALSE,
                                h_ops, events, sigq)
       IN  /\ Resumed(SearchRaise(w_titles, srch, offline_loaded))
           /\ h_srch' = IF h_srch.degraded /\ h_srch.shadow.pc = "call"
                         THEN [h_srch EXCEPT !.shadow = SearchRaise(w_titles, @, FALSE)]
                         ELSE h_srch
    /\ UNCHANGED << store, batchVars, kind, offline_loaded, added_in_session >>
    /\ UNCHANGED << details, rq, h_add, direct >>
    /\ clock' = IF w_pc' = "call" THEN RateLimitWait(clock) ELSE clock
    /\ UNCHANGED << w_file, w_titles, h_store0 >>
    /\ UNCHANGED << import_results, import_in_progress, import_button, add_buttons, pending >>

\* the loop is over: import_file returns results, ImportThread.run emits
\* import_finished
ImportFileReturn ==
    /\ w_pc = "run"
    /\ w_i > Len(w_file.entries)
    /\ w_pc' = "returned"
    /\ sigq' = Append(sigq, Signal("import_finished", NoResult))
    /\ UNCHANGED << store, batchVars, serviceVars, probeVars >>
    /\ UNCHANGED << w_file, w_i, w_results, w_titles, srch, s_count, events, last,
                    h_ops, h_store0 >>
    /\ UNCHANGED << import_results, import_in_progress, import_button, add_buttons, pending >>

\* ---------------------------------------------------------- ImportDialog

\* the slot connected to the signal at the head of the queue runs:
\* on_progress_updated, on_result_ready, on_import_finished or on_import_error
Deliver ==
    /\ sigq # << >>
    /\ sigq' = Tail(sigq)
    /\ LET s == Head(sigq)
       IN  CASE s.sig = "result_ready" ->
                    /\ import_results' = Append(import_results, s.result)
                    /\ UNCHANGED << import_in_progress, import_button, add_buttons >>
             [] s.sig = "import_finished" ->
                    /\ import_in_progress' = FALSE
                    /\ import_button' = TRUE
                    /\ add_buttons' = TRUE
                    /\ UNCHANGED import_results
             [] s.sig = "import_error" ->
                    /\ import_in_progress' = FALSE
                    /\ import_button' = TRUE
                    /\ UNCHANGED << import_results, add_buttons >>
             [] OTHER ->
                    UNCHANGED << import_results, import_in_progress, import_button,
                                 add_buttons >>
    /\ UNCHANGED << store, batchVars, serviceVars, workerVars, probeVars, pending >>

\* the match children of the results tree, in tree order: << result, match >>
RECURSIVE Flatten(_)
Flatten(ss) == IF ss = << >> THEN << >> ELSE Head(ss) \o Flatten(Tail(ss))

Children ==
    Flatten([r \in 1..Len(import_results) |->
        [m \in 1..Len(import_results[r].matches) |-> << r, m >>]])

RECURSIVE SelectNew(_, _)
SelectNew(cs, keep) ==
    IF cs = << >> THEN << >>
    ELSE LET match == import_results[Head(cs)[1]].matches[Head(cs)[2]]
         IN  IF /\ Head(cs) \in keep
                /\ ~CheckDuplicate(match, kind, added_in_session, store).is_dup
             THEN << match >> \o SelectNew(Tail(cs), keep)
             ELSE SelectNew(Tail(cs), keep)

\* the loop of add_matches_to_db left by the first exception
RECURSIVE RowsAddedUntilFailure(_, _, _)
RowsAddedUntilFailure(matches, k, ok) ==
    IF k > Len(matches) \/ k \notin ok THEN << >>
    ELSE << Item(matches[k].title, ColumnYear(matches[k].year), kind,
                 IF kind = "Anime" THEN NoId ELSE matches[k].id,
                 IF kind = "Anime" THEN matches[k].id ELSE NoId) >>
         \o RowsAddedUntilFailure(matches, k + 1, ok)

\* the rows add_matches_to_db inserts: those of the matches whose add_item
\* does not raise
RECURSIVE RowsAdded(_, _, _)
RowsAdded(matches, k, ok) ==
    IF k > Len(matches) THEN << >>
    ELSE IF k \in ok
         THEN << Item(matches[k].title, ColumnYear(matches[k].year), kind,
                      IF kind = "Anime" THEN NoId ELSE matches[k].id,
                      IF kind = "Anime" THEN matches[k].id ELSE NoId) >>
              \o RowsAdded(matches, k + 1, ok)
         ELSE RowsAdded(matches, k + 1, ok)

\* mark_as_added without the update of the set
MarkAsAddedKeeps(added, media_ids) == added

\* mark_as_added(media_ids): the set as it is after the call
MarkAsAdded(added, media_ids) == added \cup media_ids

\* ImportDialog.add_matches_to_db(matches); ok: the matches whose MediaItem is
\* built and whose insert succeeds; added_count is the number of rows inserted
AddMatchesToDb(matches, ok) ==
    LET Inserted(rows) ==
            /\ store' = store \o rows
            /\ h_add' = [valid |-> TRUE, matches |-> matches, ok |-> ok,
                         added_count |-> Len(rows), store0 |-> store,
                         added0 |-> added_in_session]
    IN
    /\ \A k \in ok : matches[k].title # NoneTitle
    /\ Len(store) + Cardinality(ok) <= MaxStore
    /\ Inserted(RowsAdded(matches, 1, ok))
    /\ added_in_session' =
          LET added_ids == { matches[k].id : k \in { j \in ok : matches[j].id # NoId } }
          IN  IF added_ids # {} THEN MarkAsAdded(added_in_session, added_ids)
              ELSE added_in_session

\* ImportDialog.add_all_matches, the question answered Yes
AddAllMatches ==
    /\ add_buttons
    /\ import_results # << >>
    /\ LET usable == { c \in { Children[k] : k \in 1..Len(Children) } :
                          import_results[c[1]].status \in {"success", "partial_duplicate"} }
           items_to_add == SelectNew(Children, usable)
       IN  /\ items_to_add # << >>
           /\ \E ok \in SUBSET (1..Len(items_to_add)) : AddMatchesToDb(items_to_add, ok)
    /\ UNCHANGED << batchVars, kind, offline_loaded, search_cache, workerVars, dialogVars >>
    /\ UNCHANGED << details, clock, rq, h_srch, direct >>

\* ImportDialog.add_selected_matches with the match children sel selected
AddSelectedMatches ==
    /\ add_buttons
    /\ \E sel \in SUBSET { Children[k] : k \in 1..Len(Children) } :
        LET items_to_add == SelectNew(Children, sel)
        IN  /\ items_to_add # << >>
            /\ \E ok \in SUBSET (1..Len(items_to_add)) : AddMatchesToDb(items_to_add, ok)
    /\ UNCHANGED << batchVars, kind, offline_loaded, search_cache, workerVars, dialogVars >>
    /\ UNCHANGED << details, clock, rq, h_srch, direct >>

\* show_match_details with a variant of check_duplicate that also records the
\* candidate's id as added
ShowMatchDetailsMarks(match) ==
    LET Shown(chk, again) ==
            details' = [valid |-> TRUE, match |-> match, chk |-> chk, again |-> again,
                        prev |-> IF again THEN details.chk ELSE chk,
                        store1 |-> store', added1 |-> added_in_session']
    IN  /\ added_in_session' = added_in_session \cup { match.id }
        /\ UNCHANGED << store, search_cache >>
        /\ Shown(CheckDuplicate(match, kind, added_in_session, store),
                 /\ details.valid
                 /\ details.match = match
                 /\ details.store1 = store
                 /\ details.added1 = added_in_session)

\* ImportDialog.show_match_details(match): the text shows what check_duplicate
\* returns; again: the previous text was of the same match and neither the store
\* nor the accepted-id set changed since (prev: the pair returned then)
ShowMatchDetails(match) ==
    LET Shown(chk, again) ==
            details' = [valid |-> TRUE, match |-> match, chk |-> chk, again |-> again,
                        prev |-> IF again THEN details.chk ELSE chk,
                        store1 |-> store', added1 |-> added_in_session']
    IN  /\ UNCHANGED << store, added_in_session, search_cache >>
        /\ Shown(CheckDuplicate(match, kind, added_in_session, store),
                 /\ details.valid
                 /\ details.match = match
                 /\ details.store1 = store
                 /\ details.added1 = added_in_session)

\* ImportDialog.on_selection_changed: nothing selected, a match child selected,
\* or a result selected (show_result_details makes no check)
OnSelectionChanged ==
    /\ \/ /\ details' = NoDetails
          /\ UNCHANGED << store, added_in_session, search_cache >>
       \/ \E k \in 1..Len(Children) :
            ShowMatchDetails(import_results[Children[k][1]].matches[Children[k][2]])
       \/ \E r \in 1..Len(import_results) :
            /\ details' = [valid |-> FALSE, result |-> r]
            /\ UNCHANGED << store, added_in_session, search_cache >>
    /\ UNCHANGED << batchVars, kind, offline_loaded, workerVars, dialogVars >>
    /\ UNCHANGED << clock, rq, h_add, h_srch, direct >>

\* ImportDialog.browse_file with a file chosen: the Browse button is enabled
\* all the time, and the start control is enabled whatever the dialog is doing
\* (to keep the signal queue finite the file is chosen at a moment when no
\* signal awaits delivery and no started thread awaits its run())
BrowseFile ==
    /\ sigq = << >>
    /\ pending = 0
    /\ import_button' = TRUE
    /\ UNCHANGED << sigq, import_results, import_in_progress, add_buttons, pending >>
    /\ UNCHANGED << store, batchVars, serviceVars, workerVars, probeVars >>

\* the running ImportThread has returned, and a thread started meanwhile
\* begins its run()
ThreadScheduled ==
    /\ w_pc = "returned"
    /\ pending > 0
    /\ pending' = pending - 1
    /\ w_pc' = "start"
    /\ UNCHANGED << sigq, import_results, import_in_progress, import_button, add_buttons >>
    /\ UNCHANGED << store, batchVars, serviceVars, probeVars >>
    /\ UNCHANGED << w_file, w_i, w_results, w_titles, srch, s_count, events, last,
                    h_ops, h_store0 >>

Next ==
    \/ StartImport
    \/ ImportFileBegin
    \/ ProcessEntry
    \/ RemoteReturns
    \/ RemoteRaises
    \/ ImportFileReturn
    \/ Deliver
    \/ AddAllMatches
    \/ AddSelectedMatches

Spec == Init /\ [][Next]_vars

\* the import dialog with the user also moving the selection of the results tree
NextDetails == Next \/ OnSelectionChanged

SpecDetails == Init /\ [][NextDetails]_vars

\* ImportThread.run, and the dialog starting it and receiving its signals
NextRun ==
    \/ StartImport
    \/ ImportFileBegin
    \/ ProcessEntry
    \/ RemoteReturns
    \/ RemoteRaises
    \/ ImportFileReturn
    \/ Deliver

\* the import run with the user also choosing a file again while it goes on
NextBrowse == NextRun \/ BrowseFile \/ ThreadScheduled

\* the TV service over an empty store
InitBrowse == Init /\ kind = "TV" /\ store = << >>

SpecBrowse == InitBrowse /\ [][NextBrowse]_vars

\* ImportThreads started whose run() has not returned
RunsInFlight == (IF w_pc \in {"start", "run", "call"} THEN 1 ELSE 0) + pending

\* The thread goes on while it has a step to take, and every remote call comes
\* back, returning or raising.  The weak fairness of the loop's steps is
\* written out: one of them is possible exactly when the loop has an entry left
SpecFair ==
    /\ Init /\ [][NextRun]_vars
    /\ WF_vars(ImportFileBegin)
    /\ WF_vars(ImportFileReturn)
    /\ \/ []<>~(w_pc \in {"run", "call"} /\ w_i <= Len(w_file.entries))
       \/ []<><<ProcessEntry \/ RemoteReturns \/ RemoteRaises>>_vars

\* the anime service, over any of its stores
InitAnime == Init /\ kind = "Anime"

\* search_anime(query) or get_anime_with_relations(anime_id) is called and
\* posts its request
RequestBegin ==
    /\ rq.pc \in {"idle", "done"}
    /\ \E call \in ({"search_anime"} \X {T_ab, T_ab_b, T_bangs})
                   \cup ({"get_anime_with_relations"} \X {1, 2}) :
          rq' = [pc |-> "post", caller |-> call[1], arg |-> call[2], retry_count |-> 0,
                 attempts |-> 0, slept |-> << >>, status |-> 0, data |-> [none |-> TRUE],
                 body |-> [none |-> TRUE], out |-> << >>]
    /\ UNCHANGED << store, batchVars, serviceVars, workerVars, dialogVars >>
    /\ UNCHANGED << details, clock, h_add, h_srch, direct >>

\* the POST is answered; body: the JSON of a 200 answer, with or without 'data'.
\* When _make_request ends, its caller returns [] for no data or no 'data' key
\* and the records otherwise
RequestAnswered ==
    /\ rq.pc = "post"
    /\ \E status \in {0, 200, 429, 500} :
       \E media \in (IF rq.caller = "search_anime" THEN SearchResponses("Anime")
                     ELSE RelationResponses(rq.arg)) :
       \E has_data \in BOOLEAN :
          LET Returned(r) ==
                  rq' = IF r.pc = "done" /\ ~r.data.none /\ r.data.has_data
                        THEN [r EXCEPT !.out = r.data.media]
                        ELSE r
              Answered(body) ==
                  Returned(MakeRequest([rq EXCEPT !.body = body], status, body))
          IN  /\ status # 200 => (media = << >> /\ ~has_data)
              /\ ~has_data => media = << >>
              /\ Answered([none |-> FALSE, has_data |-> has_data, media |-> media])
    /\ UNCHANGED << store, batchVars, serviceVars, workerVars, dialogVars >>
    /\ UNCHANGED << details, clock, h_add, h_srch, direct >>

\* the AniList client serving one caller after another
NextRequest == RequestBegin \/ RequestAnswered

SpecRequest == InitAnime /\ [][NextRequest]_vars

\* one unit of time passes
Tick ==
    /\ clock.elapsed <= RateLimitDelay
    /\ clock' = [clock EXCEPT !.elapsed = @ + 1]
    /\ UNCHANGED << store, batchVars, serviceVars, workerVars, dialogVars >>
    /\ UNCHANGED << details, rq, h_add, h_srch, direct >>

\* the import with time passing between its steps
NextPacing == Next \/ Tick

SpecPacing == InitAnime /\ [][NextPacing]_vars

\* the movie or the TV service, over any of its stores
InitMovieTV == Init /\ kind # "Anime"

SpecPacingMovieTV == InitMovieTV /\ [][NextPacing]_vars

\* ------------------------------------------- methods called on their own
\* parse_titles_from_entry, _filter_strict_matches, check_duplicate and the
\* anime search_media, called on a service that has imported nothing yet.

\* the example entry of the anime parser and its parts
T_frieren ==
    << "[", "U+5408", "U+96C6", "]", "[", "U+846C", "U+9001", "U+7684",
       "U+8299", "U+8389", "U+83B2", "]", " ", "F", "r", "i", "e", "r", "e",
       "n", ":", " ", "B", "e", "y", "o", "n", "d", " ", "J", "o", "u", "r",
       "n", "e", "y", "'", "s", " ", "E", "n", "d", " ", "[", "1", "0", "8",
       "0", "p", "]", "[", "B", "D", "R", "i", "p", "]" >>

T_frieren_en ==
    << "F", "r", "i", "e", "r", "e", "n", ":", " ", "B", "e", "y", "o", "n",
       "d", " ", "J", "o", "u", "r", "n", "e", "y", "'", "s", " ", "E", "n",
       "d" >>

B_collection == << "[", "U+5408", "U+96C6", "]" >>
B_frieren == << "[", "U+846C", "U+9001", "U+7684", "U+8299", "U+8389", "U+83B2", "]" >>
B_kana == << "[", "U+304B", "U+306A", "]" >>
B_release == << "[", "1", "0", "8", "0", "p", "]", "[", "B", "D", "R", "i", "p", "]" >>

\* cells of an anime list: an optional collection tag, an optional bracket in
\* Chinese or Japanese, an optional bracket in Latin letters, an optional
\* title outside the brackets, optional release tags
AnimeCells ==
    { a \o b \o c \o d \o e :
        a \in { << >>, B_collection },
        b \in { << >>, B_frieren, B_kana },
        c \in { << >>, T_br_AB },
        d \in { << >>, << " " >> \o T_frieren_en \o << " " >>, << " " >> \o T_ab },
        e \in { << >>, B_release } }

\* a release tag after a space, and n of them in a row
T_tag == << " ", "[", "1", "0", "8", "0", "p", "]" >>
Tags(n) == [i \in 1..(Len(T_tag) * n) |-> T_tag[((i - 1) % Len(T_tag)) + 1]]

\* cells of 99 and of 100 characters, without brackets and with release tags
\* as their only brackets
LongCells ==
    { SubSeq(T_long, 1, 99), T_long,
      << "a", "b", "a" >> \o Tags(12), << "a", "b", "a", "b" >> \o Tags(12) }

T_matrix == << "T", "h", "e", " ", "M", "a", "t", "r", "i", "x" >>
T_matrix_1999 == << "T", "h", "e", " ", "M", "a", "t", "r", "i", "x", " ", "(", "1", "9", "9", "9", ")" >>

YearDigits == { << "1", "9", "9", "9" >>, << "1", "9", "5", "0" >>, << "2", "0", "3", "0" >>,
               << "1", "9", "4", "9" >>, << "2", "0", "3", "1" >> }

\* cells of a movie or TV list: a title, before it nothing or a number and a
\* space, after it nothing, a number in parentheses, a number after a space
\* (the cell ending there or going on), or a number glued to the title
MovieCells ==
    { a \o t \o b :
        t \in { T_ab, T_matrix },
        a \in { << >> } \cup { y \o << " " >> : y \in { << "1", "9", "4", "9" >>, << "1", "9", "9", "9" >> } },
        b \in { << >>, << "1", "9", "9", "9" >>,
                << " ", "1", "9", "9", "9", " " >> \o T_ab }
               \cup { << " ", "(" >> \o y \o << ")" >> : y \in YearDigits }
               \cup { << " " >> \o y : y \in YearDigits } }

T_AIR == << "A", "I", "R" >>
T_AIRS == << "A", "I", "R", "S" >>
T_Air_Gear == << "A", "i", "r", " ", "G", "e", "a", "r" >>

\* AniList records known by their English title alone
Air == Cand(11, T_AIR, NoneTitle, NoneTitle, IntYear(2005))
Airs == Cand(12, T_AIRS, NoneTitle, NoneTitle, IntYear(2005))
AirGear == Cand(13, T_Air_Gear, NoneTitle, NoneTitle, IntYear(2006))

T_AirGear == << "A", "i", "r", "G", "e", "a", "r" >>
T_Air_Gear_AIR == << "A", "i", "r", " ", "G", "e", "a", "r", " ", "A", "I", "R" >>
T_A_i_r_Gear == << "A", " ", "i", " ", "r", " ", "G", "e", "a", "r" >>
T_A_irGe_ar == << "A", " ", "i", "r", "G", "e", " ", "a", "r" >>
T_AirGearAIR == << "A", "i", "r", "G", "e", "a", "r", "A", "I", "R" >>

\* records known by one title variant: a Romaji title of four words, a native
\* title of one word, an English title of three words; a record without any
\* title, and one whose English and native titles are empty strings
SpelledGear == Cand(14, NoneTitle, T_A_i_r_Gear, NoneTitle, IntYear(2006))
GluedGear == Cand(15, NoneTitle, NoneTitle, T_AirGearAIR, IntYear(2006))
SplitGear == Cand(16, T_A_irGe_ar, NoneTitle, NoneTitle, IntYear(2006))
Untitled == Cand(17, NoneTitle, NoneTitle, NoneTitle, NoYear)
RomajiAir == Cand(18, EmptyStr, T_AIR, EmptyStr, IntYear(2005))

\* the lists of one to three of the records above, none twice
GearLists ==
    { ms \in SeqsUpTo({ AirGear, SpelledGear, GluedGear, SplitGear, Untitled, RomajiAir }, 3) :
        \A i, j \in 1..Len(ms) : ms[i] = ms[j] => i = j }

\* the lists of one to three of these records, none twice
AirLists ==
    { ms \in SeqsUpTo({ Air, Airs, AirGear }, 3) :
        \A i, j \in 1..Len(ms) : ms[i] = ms[j] => i = j }

\* stores for check_duplicate: up to two rows, among a row of the kind without
\* an id titled as the first record of the catalog, two rows of the kind that
\* hold the record's id under another title, one sorted before that title and
\* one after, and two rows of another kind, one with the title, year and id
\* number of the first record and one with the title of the record without
\* a year, its year NULL
DirectStores(k) ==
    LET Row(title, year, id) ==
            IF k = "Anime" THEN Item(title, year, k, NoId, id)
            ELSE Item(title, year, k, id, NoId)
        other == IF k = "Movie" THEN "TV" ELSE "Movie"
        rows == { Row(T_ab, IntYear(1999), NoId), Row(T_a, IntYear(2000), 1),
                  Row(T_bbbb, IntYear(2000), 1),
                  Item(T_ab, IntYear(1999), other, 1, NoId),
                  Item(T_bbbb, NoYear, other, 3, NoId) }
    IN  { st \in SeqsUpTo(rows, 2) :
            \A i, j \in 1..Len(st) :
                i # j => /\ st[i] # st[j]
                         /\ \/ st[i].media_type # st[j].media_type
                            \/ IdOf(k, st[i]) = NoId
                            \/ IdOf(k, st[i]) # IdOf(k, st[j]) }

T_ab_bang == << "a", "b", "!" >>
T_kana == << "U+304B", "U+306A" >>
T_hanzi == << "U+846C", "U+9001" >>
T_hanzi_a == << "U+846C", "a" >>

\* the title sets search_media is called with: an English title the offline
\* index knows (as it is, or with a character the cleaning removes) or does
\* not know, a Romaji title equal to it or not, a Japanese title, and a
\* Chinese title with or without an ASCII letter
SearchTitleSets ==
    { [NoTitles EXCEPT !.english = en, !.romaji = ro, !.japanese = ja, !.chinese = zh] :
        en \in { NoneTitle, T_ab, T_ab_bang, T_bbbb },
        ro \in { NoneTitle, T_ab, T_ab_b },
        ja \in { NoneTitle, T_kana },
        zh \in { NoneTitle, T_hanzi, T_hanzi_a } }

\* ManualMatchDialog.search: titles = {'title': search_term}, and the year if
\* the year field holds digits
TitleOnlySets ==
    { [NoTitles EXCEPT !.title = t, !.year = y] :
        t \in { T_ab, T_bangs }, y \in { NoYear, StrYear(1999) } }

\* a second AniList record under the title of the first
A3 == Cand(3, T_ab, T_ab, NoneTitle, IntYear(2019))

\* what search_anime may answer to a search_media called on its own
DirectAnswers == SearchResponses("Anime") \cup { << A1, A3 >> }

T_Air == << "A", "i", "r" >>

\* the title sets and the candidates calculate_confidence is called with:
\* titles equal up to case, contained in one another, sharing words, or
\* unrelated
ConfidenceTitleSets ==
    { [NoTitles EXCEPT !.english = en, !.romaji = ro, !.japanese = ja] :
        en \in { NoneTitle, T_AIR, T_Air_Gear },
        ro \in { NoneTitle, T_AIR, T_AirGear },
        ja \in { NoneTitle, T_kana } }

ConfidenceCandidates ==
    { Cand(21, en, ro, na, IntYear(2006)) :
        en \in { NoneTitle, T_Air, T_Air_Gear, T_Air_Gear_AIR },
        ro \in { NoneTitle, T_Air, T_AirGear },
        na \in { NoneTitle, T_kana, T_hanzi } }

\* the calls made on a service of kind k
DirectCalls(k) ==
    { [pc |-> "called", fn |-> "search_media", titles |-> t, round |-> 1,
       trace |-> << >>, result |-> NoSearch] :
        t \in IF k = "Anime" THEN SearchTitleSets \cup TitleOnlySets ELSE {} }
    \cup
    { [pc |-> "called", fn |-> "check_duplicate", match |-> m] :
        m \in { ms[1] : ms \in { r \in SearchResponses(k) : r # << >> } } }
    \cup
    { [pc |-> "called", fn |-> "calculate_confidence", titles |-> t, match |-> m] :
        t \in IF k = "Anime" THEN ConfidenceTitleSets ELSE {},
        m \in ConfidenceCandidates }
    \cup
    { [pc |-> "called", fn |-> "parse_titles_from_entry", entry |-> e] :
        e \in IF k = "Anime" THEN AnimeCells \cup LongCells ELSE MovieCells }
    \cup { [pc |-> "called", fn |-> "_filter_strict_matches",
            search_title |-> t, matches |-> ms] :
                t \in IF k = "Anime" THEN { EmptyStr, T_AIR, T_AIRS, T_Air_Gear } ELSE {},
                ms \in AirLists }
    \cup { [pc |-> "called", fn |-> "_filter_strict_matches",
            search_title |-> t, matches |-> ms] :
                t \in IF k = "Anime" THEN { T_AIR, T_AirGear, T_Air_Gear, T_Air_Gear_AIR } ELSE {},
                ms \in GearLists }

InitDirect ==
    /\ \E k \in MediaTypes :
        /\ direct \in DirectCalls(k)
        /\ IF direct.fn = "check_duplicate"
           THEN /\ \E added \in { {}, {direct.match.id} } : ServiceIdle(k, FALSE, added)
                /\ store \in DirectStores(k)
           ELSE IF direct.fn = "search_media"
           THEN /\ \E loaded \in BOOLEAN : ImportIdle(k, loaded)
                /\ store = << >>
           ELSE /\ ImportIdle(k, FALSE)
                /\ store = << >>
    /\ b_before = store
    /\ BatchIdle

\* parse_titles_from_entry(entry) returns
ParseTitlesReturns ==
    /\ direct.pc = "called"
    /\ direct.fn = "parse_titles_from_entry"
    /\ direct' = [pc |-> "returned", fn |-> direct.fn, entry |-> direct.entry,
                  titles |-> ParseTitlesFromEntry(kind, direct.entry)]
    /\ UNCHANGED << store, batchVars, serviceVars, workerVars, dialogVars >>
    /\ UNCHANGED << details, clock, rq, h_add, h_srch >>

\* calculate_confidence(titles, match) returns
CalculateConfidenceReturns ==
    /\ direct.pc = "called"
    /\ direct.fn = "calculate_confidence"
    /\ direct' = [pc |-> "returned", fn |-> direct.fn, titles |-> direct.titles,
                  match |-> direct.match,
                  confidence |-> CalculateConfidence(kind, direct.titles, direct.match)]
    /\ UNCHANGED << store, batchVars, serviceVars, workerVars, dialogVars >>
    /\ UNCHANGED << details, clock, rq, h_add, h_srch >>

\* _filter_strict_matches(search_title, matches) returns
FilterStrictReturns ==
    /\ direct.pc = "called"
    /\ direct.fn = "_filter_strict_matches"
    /\ direct' = [pc |-> "returned", fn |-> direct.fn,
                  search_title |-> direct.search_title, matches |-> direct.matches,
                  filtered |-> FilterStrictMatches(direct.search_title, direct.matches)]
    /\ UNCHANGED << store, batchVars, serviceVars, workerVars, dialogVars >>
    /\ UNCHANGED << details, clock, rq, h_add, h_srch >>

\* check_duplicate(match) returns
CheckDuplicateReturns ==
    /\ direct.pc = "called"
    /\ direct.fn = "check_duplicate"
    /\ direct' = [pc |-> "returned", fn |-> direct.fn, match |-> direct.match,
                  result |-> CheckDuplicate(direct.match, kind, added_in_session, store)]
    /\ UNCHANGED << store, batchVars, serviceVars, workerVars, dialogVars >>
    /\ UNCHANGED << details, clock, rq, h_add, h_srch >>

\* search_media has ended as r (a return or a raise) after the remote calls of
\* trace
SearchMediaEnds(r, trace) ==
    /\ direct' = [direct EXCEPT !.pc = "returned", !.trace = trace, !.result = r]
    /\ srch' = NoSearch
    /\ search_cache' = IF r.stored
                       THEN CacheStore(search_cache, NormalizeTitleForCache(direct.titles),
                                       r.all)
                       ELSE search_cache

\* search_media is at the remote call r
SearchMediaWaits(r, trace) ==
    /\ direct' = [direct EXCEPT !.pc = "remote", !.trace = trace]
    /\ srch' = r
    /\ UNCHANGED search_cache

\* search_media(titles) is called: up to its first remote call, or to its end
\* if there is none
SearchMediaCalled ==
    /\ direct.pc = "called"
    /\ direct.fn = "search_media"
    /\ LET Begun(r) == IF r.pc = "call" THEN SearchMediaWaits(r, << >>)
                       ELSE SearchMediaEnds(r, << >>)
       IN  Begun(SearchBegin(kind, direct.titles, search_cache, offline_loaded))
    /\ clock' = IF direct'.pc = "remote" THEN RateLimitWait(clock) ELSE clock
    /\ UNCHANGED << store, batchVars, kind, offline_loaded, added_in_session, dialogVars >>
    /\ UNCHANGED << w_pc, w_file, w_i, w_results, w_titles, s_count, events, last,
                    h_ops, h_store0 >>
    /\ UNCHANGED << details, rq, h_add, h_srch >>

\* the remote call of search_media returns resp or raises: on to the next
\* remote call or to the end
SearchMediaAnswered ==
    /\ direct.pc = "remote"
    /\ \E raised \in BOOLEAN :
        \E resp \in (IF raised THEN { << >> }
                     ELSE IF srch.tier \in {"offline_rel", "english_rel"}
                     THEN RelationResponses(srch.best_id)
                     ELSE DirectAnswers) :
            LET Resumed(r, trace) == IF r.pc = "call" THEN SearchMediaWaits(r, trace)
                                     ELSE SearchMediaEnds(r, trace)
            IN  Resumed(IF raised THEN SearchRaise(direct.titles, srch, offline_loaded)
                        ELSE SearchResume(direct.titles, srch, resp, offline_loaded),
                        Append(direct.trace,
                               [tier |-> srch.tier, query |-> srch.query, all |-> srch.all,
                                resp |-> resp, raised |-> raised]))
    /\ clock' = IF direct'.pc = "remote" THEN RateLimitWait(clock) ELSE clock
    /\ UNCHANGED << store, batchVars, kind, offline_loaded, added_in_session, dialogVars >>
    /\ UNCHANGED << w_pc, w_file, w_i, w_results, w_titles, s_count, events, last,
                    h_ops, h_store0 >>
    /\ UNCHANGED << details, rq, h_add, h_srch >>

\* search_media is called once more with the same titles
SearchMediaAgain ==
    /\ direct.pc = "returned"
    /\ direct.fn = "search_media"
    /\ direct.round = 1
    /\ direct' = [direct EXCEPT !.pc = "called", !.round = 2, !.trace = << >>,
                                !.result = NoSearch]
    /\ UNCHANGED << store, batchVars, serviceVars, workerVars, dialogVars >>
    /\ UNCHANGED << details, clock, rq, h_add, h_srch >>

\* ManualMatchDialog.search calls search_media with the term typed, on the
\* service that has searched before
SearchMediaFromDialog ==
    /\ direct.pc = "returned"
    /\ direct.fn = "search_media"
    /\ direct.round = 1
    /\ \E t \in TitleOnlySets :
        direct' = [direct EXCEPT !.pc = "called", !.round = 2, !.titles = t,
                                 !.trace = << >>, !.result = NoSearch]
    /\ UNCHANGED << store, batchVars, serviceVars, workerVars, dialogVars >>
    /\ UNCHANGED << details, clock, rq, h_add, h_srch >>

NextDirect ==
    \/ SearchMediaCalled
    \/ SearchMediaAnswered
    \/ SearchMediaAgain
    \/ SearchMediaFromDialog
    \/ CheckDuplicateReturns
    \/ ParseTitlesReturns
    \/ FilterStrictReturns
    \/ CalculateConfidenceReturns

SpecDirect == InitDirect /\ [][NextDirect]_vars

\* ------------------------------------------------------------ Claim C2

\* C2: after any sequence of import runs and accept operations, no two stored
\* records of the same media kind have the same non-null external id
C2_UniqueExternalIds ==
    \A i, j \in 1..Len(store) :
        (/\ i # j
         /\ store[i].media_type = store[j].media_type
         /\ IdOf(store[i].media_type, store[i]) # NoId)
        => IdOf(store[i].media_type, store[i]) # IdOf(store[j].media_type, store[j])

\* ------------------------------------------------------------ Claim C3

\* C3: session duplicate guard. Every id of a row inserted since the run began
\* is in the accepted-id set; check_duplicate on any reviewed candidate whose id
\* is in that set answers is_duplicate with the "[added in this import]"
\* description of the candidate itself, whether or not the store holds the id;
\* and no accept operation inserts a row for an id that is in the set.
C3_SessionGuard ==
    /\ [](w_file # NoFile =>
            \A i \in (Len(h_store0) + 1)..Len(store) :
                IdOf(kind, store[i]) # NoId => IdOf(kind, store[i]) \in added_in_session)
    /\ [](\A r \in 1..Len(import_results) :
            \A m \in 1..Len(import_results[r].matches) :
                LET match == import_results[r].matches[m]
                    chk == CheckDuplicate(match, kind, added_in_session, store)
                IN  (match.id # NoId /\ match.id \in added_in_session)
                    => /\ chk.is_dup
                       /\ chk.session
                       /\ chk.title = match.title
                       /\ chk.year = match.year)
    /\ [][\A x \in added_in_session :
            Cardinality({ i \in 1..Len(store') :
                            store'[i].media_type = kind /\ IdOf(kind, store'[i]) = x })
            = Cardinality({ i \in 1..Len(store) :
                            store[i].media_type = kind /\ IdOf(kind, store[i]) = x })]_vars

\* two entries of the run resolved to the same id, the first candidate was
\* accepted, the second is under review and not persisted
C3_Witness ==
    \E r1, r2 \in 1..Len(import_results) :
        /\ r1 < r2
        /\ import_results[r1].matches # << >>
        /\ import_results[r2].matches # << >>
        /\ import_results[r1].matches[1].id = import_results[r2].matches[1].id
        /\ import_results[r1].matches[1].id \in added_in_session
        /\ Cardinality({ i \in 1..Len(store) :
                /\ store[i].media_type = kind
                /\ IdOf(kind, store[i]) = import_results[r1].matches[1].id }) = 1

\* ------------------------------------------------------------ Claim C4

C5_OneOutcomePerEntry ==
    FileParses(w_file) =>
        LET IsResult(e) == e.type = "result"
            emitted == SelectSeq(events, IsResult)
        IN  /\ Len(emitted) = Len(w_results)
            /\ Len(w_results) <= Len(w_file.entries)
            /\ \A k \in 1..Len(w_results) :
                /\ emitted[k] = ResultEvent(w_results[k])
                /\ w_results[k].original_text = w_file.entries[k]
            /\ w_pc = "returned" => Len(w_results) = Len(w_file.entries)

\* a run over two different entries has returned
C5_Witness ==
    /\ w_pc = "returned"
    /\ Len(w_file.entries) = 2
    /\ w_file.entries[1] # w_file.entries[2]
    /\ Len(w_results) = 2
    /\ w_results[1].status # w_results[2].status

\* ------------------------------------------------------------ Claim C6

\* C6: file-level error. For a file of unsupported extension or one the
\* container parser fails on, import_file hands exactly one outcome to
\* result_callback, of status 'error' and with no matches, returns the list of
\* that outcome alone, and does nothing else: no progress callback, no entry
\* parsed, no search, no pacing wait, no query of the store.
C6_FileLevelError ==
    w_file.format \in {"unsupported", "corrupt"} =>
        /\ w_pc \in {"returned", "start"}
        /\ Len(w_results) = 1
        /\ w_results[1].status = "error"
        /\ w_results[1].matches = << >>
        /\ events = << ResultEvent(w_results[1]) >>
        /\ h_ops = NoOps
        /\ srch = NoSearch
        /\ s_count = NoCount

\* a file of unsupported extension was imported over a non-empty store, and the
\* dialog has received the outcome
C6_Witness ==
    /\ w_file.format = "unsupported"
    /\ w_pc = "returned"
    /\ store # << >>
    /\ import_results = w_results
    /\ ~import_in_progress

\* ------------------------------------------------------------ Claim C7

\* C7: import_file performs no persistent writes: from its start until the
\* dialog has been told of its end, the store is the store import_file began
\* with and the accepted-id set is empty.
C7_NoPersistentWrites ==
    (w_pc \in {"run", "call"} \/ (w_pc = "returned" /\ import_in_progress))
        => (store = h_store0 /\ added_in_session = {})

\* import_file has returned after reading a non-empty store for a duplicate
C7_Witness ==
    /\ w_pc = "returned"
    /\ import_in_progress
    /\ store # << >>
    /\ h_ops.queried > 0
    /\ \E k \in 1..Len(w_results) : w_results[k].status = "duplicate"

\* ------------------------------------------------------------ Claim C8

\* C8: cache hit. A search_media call whose title set's non-empty key is in the
\* cache returns was_cached = true and the candidates the cache holds, makes no
\* pacing wait and no remote call and stores nothing; and the confidence the
\* caller attaches to the returned candidates never shows in a cached one.
C8_CacheHit ==
    /\ (last.valid /\ last.had) =>
          /\ last.key # EmptyStr
          /\ last.was_cached
          /\ last.matches = search_cache[last.key]
          /\ last.waits = 0
          /\ last.calls = 0
          /\ ~last.stored
    /\ \A k \in DOMAIN search_cache :
          \A n \in 1..Len(search_cache[k]) : search_cache[k][n].conf = NoConf

\* a hit returned candidates, and the caller scored them
C8_Witness ==
    /\ last.valid
    /\ last.had
    /\ last.matches # << >>
    /\ last.entry <= Len(w_results)
    /\ w_results[last.entry].matches # << >>
    /\ w_results[last.entry].cached
    /\ w_results[last.entry].matches[1].conf # NoConf

\* ------------------------------------------------------------ Claim C9

C10_SessionLifetime ==
    [][IF w_pc = "start" /\ w_pc' # "start"
       THEN search_cache' = << >> /\ added_in_session' = {}
       ELSE (DOMAIN search_cache \subseteq DOMAIN search_cache'
             /\ added_in_session \subseteq added_in_session')]_vars

\* a candidate was accepted in an earlier run, and a later import_file, on a
\* file that fails to parse, has emptied the accepted-id set
C10_Witness ==
    /\ \E i \in 1..Len(store) : store[i].media_type = kind /\ IdOf(kind, store[i]) = 2
    /\ w_file.format = "corrupt"
    /\ w_pc = "returned"
    /\ added_in_session = {}
    /\ search_cache = << >>

\* ----------------------------------------------------------- Claim C11

\* C11: add_matches_to_db attempts every candidate of the list whatever the
\* candidates before it did: after the call the store is the store before it
\* followed by one row for each candidate whose build and insert succeeded, in
\* list order, also for a candidate that comes after a failed one, and the
\* value returned is the number of those candidates
C11_AdvisoryPersistence ==
    h_add.valid =>
        LET rows == SubSeq(store, Len(h_add.store0) + 1, Len(store))
            Pos(k) == Cardinality({ i \in h_add.ok : i <= k })
        IN  /\ Len(store) >= Len(h_add.store0)
            /\ SubSeq(store, 1, Len(h_add.store0)) = h_add.store0
            /\ h_add.ok \subseteq 1..Len(h_add.matches)
            /\ h_add.added_count = Cardinality(h_add.ok)
            /\ Len(rows) = Cardinality(h_add.ok)
            /\ \A k \in h_add.ok :
                  /\ rows[Pos(k)].title = h_add.matches[k].title
                  /\ rows[Pos(k)].media_type = kind
                  /\ IdOf(kind, rows[Pos(k)]) = h_add.matches[k].id

\* a call whose first candidate failed and whose second was inserted
C11_Witness ==
    /\ h_add.valid
    /\ Len(h_add.matches) = 2
    /\ h_add.ok = {2}
    /\ h_add.added_count = 1
    /\ Len(store) = Len(h_add.store0) + 1
    /\ IdOf(kind, store[Len(store)]) = h_add.matches[2].id

\* ----------------------------------------------------------- Claim C12

\* C12: a call of add_matches_to_db adds to the accepted-id set exactly the
\* non-null external ids of the candidates whose insert succeeded, and at
\* every point each id of the set is the id of a row of the service's kind
\* inserted since the import run began
C12_AcceptedIds ==
    /\ [][(h_add' # h_add) =>
            (added_in_session' = added_in_session \cup
                { h_add'.matches[k].id :
                    k \in { j \in h_add'.ok : h_add'.matches[j].id # NoId } })]_vars
    /\ [](\A x \in added_in_session :
            \E i \in (Len(h_store0) + 1)..Len(store) :
                store[i].media_type = kind /\ IdOf(kind, store[i]) = x)

\* a call with one candidate inserted, whose id is in the set, and one
\* failed, whose id is not
C12_Witness ==
    /\ h_add.valid
    /\ \E k \in h_add.ok : h_add.matches[k].id \in added_in_session
    /\ \E k \in (1..Len(h_add.matches)) \ h_add.ok :
          h_add.matches[k].id # NoId /\ h_add.matches[k].id \notin added_in_session

\* ----------------------------------------------------------- Claim C13

\* C13: every candidate inserted by add_matches_to_db is among the records
\* get_items(media_type) returns, with the candidate's title, year, media kind
\* and external id
C13_RoundTrip ==
    h_add.valid =>
        \A k \in h_add.ok :
            \E i \in 1..Len(GetItems(store, kind)) :
                LET item == GetItems(store, kind)[i]
                    match == h_add.matches[k]
                IN  /\ item.title = match.title
                    /\ PyEq(item.year, match.year)
                    /\ item.media_type = kind
                    /\ IdOf(kind, item) = match.id


\* ------------------------------------------------------------ Claim C14

C15_ConfidenceInUnitInterval ==
    \A i \in 1..Len(w_results) :
        /\ \A j \in 1..Len(w_results[i].matches) :
              LET conf == w_results[i].matches[j].conf
              IN  conf.den > 0 /\ FracLE(Zero, conf) /\ FracLE(conf, One)
        /\ \A resp \in SearchResponses(kind) : \A k \in 1..Len(resp) :
              LET match == resp[k]
                  Within(conf) == conf.den > 0 /\ FracLE(Zero, conf) /\ FracLE(conf, One)
              IN  Within(CalculateConfidence(kind, w_results[i].parsed_titles, match))

\* a movie outcome whose candidate has the entry's title and year: the ratio
\* 1.0 plus the bonus 0.2 is more than 1, and the stored confidence is 1.0
C15_Witness ==
    /\ kind = "Movie"
    /\ \E i \in 1..Len(w_results) : \E j \in 1..Len(w_results[i].matches) :
          /\ FracLT(One, MovieRawScore(w_results[i].parsed_titles, w_results[i].matches[j]))
          /\ w_results[i].matches[j].conf = One

\* ------------------------------------------------------------ Claim C16

\* C16: an anime entry without a bracketed segment and of 100 characters or
\* more parses to a title set whose values are all empty, and import_file
\* records an outcome of status 'error' and no candidates for it without
\* searching: the searches made so far are at most the entries begun that are
\* not of this form.
C16_LongPlainEntryIsError ==
    (kind = "Anime" /\ w_file.format = "ok") =>
        LET LongPlain(e) == Len(e) >= 100 /\ FindBrackets(e) = << >>
        IN  /\ \A i \in 1..Len(w_file.entries) :
                  LongPlain(w_file.entries[i]) =>
                      ~AnyTitle(ParseTitlesFromEntry(kind, w_file.entries[i]))
            /\ \A i \in 1..Len(w_results) :
                  LongPlain(w_file.entries[i]) =>
                      /\ ~AnyTitle(w_results[i].parsed_titles)
                      /\ w_results[i].status = "error"
                      /\ w_results[i].matches = << >>
            /\ h_ops.searched <=
                  Cardinality({ i \in 1..h_ops.parsed : ~LongPlain(w_file.entries[i]) })

\* a file whose first entry is a long bracket-free cell and whose second is
\* searched: two outcomes, the first an error, one search made
C16_Witness ==
    /\ kind = "Anime"
    /\ w_pc = "returned"
    /\ Len(w_file.entries) = 2
    /\ Len(w_file.entries[1]) >= 100
    /\ FindBrackets(w_file.entries[1]) = << >>
    /\ Len(w_results) = 2
    /\ w_results[1].status = "error"
    /\ w_results[2].status = "success"
    /\ h_ops.searched = 1

\* ------------------------------------------------------------ Claim C17

\* C17: anime pacing. Every step of the anime service that issues a remote call
\* (a title search or a relation fetch, the first of an entry or a later one)
\* comes out of _rate_limit_wait, so last_request_time is the time of the call;
\* and the time between that call and the call before it, within the entry or
\* in an earlier entry or import, is at least the delay of 2.5 seconds.
C17_AnimePacing ==
    /\ [](kind = "Anime" => clock.gap >= RateLimitDelay)
    /\ [][(kind = "Anime" /\ w_pc' = "call" /\ (w_pc = "run" \/ s_count' # s_count)) =>
            /\ clock'.elapsed = 0
            /\ clock'.gap >= RateLimitDelay
            /\ clock'.slept + clock.elapsed >= RateLimitDelay]_vars

\* the first remote call of the second entry, issued after a wait that slept for
\* a part of the delay, the rest having passed since the first entry's last call
C17_Witness ==
    /\ kind = "Anime"
    /\ w_pc = "call"
    /\ w_i = 2
    /\ s_count.calls = 1
    /\ clock.elapsed = 0
    /\ clock.slept \in 1..(RateLimitDelay - 1)
    /\ clock.gap = RateLimitDelay

\* ------------------------------------------------------------ Claim C18

\* C18: bounded backoff of the AniList client. One request is retried at most 3
\* times, only on HTTP 429, after sleeping 5, 10 and 20 seconds before the 1st,
\* 2nd and 3rd retry; a 4th 429 ends it with no data, its caller returning the
\* empty list; an answer that is not 429 ends it at once, a 200 with the
\* response's JSON as the data; and an ended request makes no further attempt.
C18_BoundedBackoff ==
    /\ [](rq.pc # "idle" =>
            /\ rq.retry_count <= 3
            /\ rq.attempts <= 4
            /\ rq.slept = SubSeq(<< 5, 10, 20 >>, 1, rq.retry_count)
            /\ rq.pc = "post" => (rq.attempts = rq.retry_count
                                   /\ (rq.attempts > 0 => rq.status = 429))
            /\ rq.pc = "done" =>
                  /\ rq.attempts = rq.retry_count + 1
                  /\ rq.status = 429 =>
                        (rq.attempts = 4 /\ rq.data = [none |-> TRUE] /\ rq.out = << >>)
                  /\ rq.status = 200 => rq.data = rq.body
                  /\ rq.status \notin {200, 429} => rq.out = << >>)
    /\ [][(rq.pc = "done" /\ rq' # rq) => (rq'.pc = "post" /\ rq'.attempts = 0)]_vars
    /\ [][(rq.pc = "post" /\ rq' # rq /\ rq'.status # 429) => rq'.pc = "done"]_vars

\* search_anime whose request was answered 429 four times: three sleeps, no
\* data, the empty list returned
C18_Witness ==
    /\ rq.pc = "done"
    /\ rq.caller = "search_anime"
    /\ rq.attempts = 4
    /\ rq.status = 429
    /\ rq.slept = << 5, 10, 20 >>
    /\ rq.out = << >>

\* ------------------------------------------------------------ Claim C19

C20_RunTerminates ==
    /\ (w_pc = "start") ~> (w_pc = "returned")
    /\ [](w_pc = "returned" =>
            IF w_file.format = "ok"
            THEN /\ Len(w_results) = Len(w_file.entries)
                 /\ w_i = Len(w_file.entries) + 1
                 /\ h_ops.parsed = Len(w_file.entries)
                 /\ \A i \in 1..Len(w_results) :
                       w_results[i].original_text = w_file.entries[i]
            ELSE /\ Len(w_results) = 1
                 /\ w_results[1].status = "error"
                 /\ h_ops.parsed = 0)
    /\ [](w_pc \in {"run", "call"} =>
            /\ w_file.format = "ok"
            /\ Len(w_results) = w_i - 1
            /\ h_ops.parsed = IF w_pc = "call" THEN w_i ELSE w_i - 1)
    /\ [][(w_pc \in {"run", "call"}) =>
            /\ w_pc' \in {"run", "call", "returned"}
            /\ w_file' = w_file
            /\ w_i' \in {w_i, w_i + 1}
            /\ w_pc' = "returned" => w_i' = w_i
            /\ SubSeq(w_results', 1, Len(w_results)) = w_results]_vars

\* a run over a file of two entries has returned with two outcomes, the second
\* after a remote call that raised
C20_Witness ==
    /\ w_pc = "returned"
    /\ w_file.format = "ok"
    /\ Len(w_file.entries) = 2
    /\ Len(w_results) = 2
    /\ w_results[2].status = "error"
    /\ last.raised
    /\ w_results[1].status = "success"

\* ----------------------------------------------------------------------
\* C21.  parse_titles_from_entry of the anime service, on the entry
\* "[..][..] Frieren: Beyond Journey's End [1080p][BDRip]" whose first two
\* brackets hold a collection tag and the Chinese title, returns english =
\* romaji = "Frieren: Beyond Journey's End", chinese = the second bracket and
\* japanese = ""; and whenever an entry has a surviving bracket in Chinese or
\* Japanese, no bracket in Latin letters, and a Latin title outside the
\* brackets, that title is returned as the English and the Romaji title.
C21_LatinTitleOutsideBrackets ==
    LET RECURSIVE Outside(_)
        \* the entry without the brackets that re.findall finds
        Outside(e) ==
            IF FirstIndex(e, "[") = 0 THEN e
            ELSE LET a == FirstIndex(e, "[")
                     rest == From(e, a + 1)
                     k == FirstIndex(rest, "]")
                 IN  IF k >= 2
                     THEN SubSeq(e, 1, a - 1) \o Outside(From(rest, k + 1))
                     ELSE SubSeq(e, 1, a) \o Outside(rest)
        LatinBracket(e) ==
            \E i \in 1..Len(FindBrackets(e)) : IsLatinText(Strip(FindBrackets(e)[i]))
        Example(t) ==
            /\ t.english = T_frieren_en
            /\ t.romaji = T_frieren_en
            /\ t.chinese = SubSeq(B_frieren, 2, Len(B_frieren) - 1)
            /\ t.japanese = EmptyStr
        General(e, t, title) ==
            (/\ Truthy(t.chinese) \/ Truthy(t.japanese)
             /\ ~LatinBracket(e)
             /\ IsLatinText(title))
                => t.english = title /\ t.romaji = title
    IN  (/\ direct.pc = "returned"
         /\ direct.fn = "parse_titles_from_entry"
         /\ kind = "Anime")
            => /\ direct.entry = T_frieren => Example(direct.titles)
               /\ General(direct.entry, direct.titles, Strip(Outside(direct.entry)))

\* ----------------------------------------------------------------------
\* C22.  parse_titles_from_entry of the movie and TV services: "The Matrix
\* (1999)" gives the title "The Matrix" and the year "1999"; whenever the entry
\* holds a 4-digit number within 1950..2030, in parentheses or standing alone
\* between whitespace or the ends of the entry, the year returned is such a
\* number and the title returned no longer holds it; a number outside
\* 1950..2030 is never returned as the year.
C22_YearExtractedAndRemoved ==
    LET \* the 4-digit numbers of s in parentheses or standing alone
        YearTokens(s) ==
            { FourDigitVal(s, IF ParenYearAt(s, p) THEN p + 1 ELSE BareYearAt(s, p)) :
                p \in { q \in 1..Len(s) : ParenYearAt(s, q) \/ BareYearAt(s, q) # 0 } }
        Valid(s) == { y \in YearTokens(s) : 1950 <= y /\ y <= 2030 }
        Holds(e, t) ==
            /\ e = T_matrix_1999 => t.title = T_matrix /\ t.year = StrYear(1999)
            /\ Valid(e) # {} =>
                /\ t.year.typ = "str"
                /\ t.year.val \in Valid(e)
                /\ t.year.val \notin YearTokens(t.title)
            /\ t.year.typ = "str" => 1950 <= t.year.val /\ t.year.val <= 2030
    IN  (/\ direct.pc = "returned"
         /\ direct.fn = "parse_titles_from_entry"
         /\ kind # "Anime")
            => Holds(direct.entry, direct.titles)

\* ----------------------------------------------------------------------
\* C23.  _filter_strict_matches with the one-word search title "AIR": of the
\* candidates titled "AIR", "AIRS" and "Air Gear" it keeps the one titled
\* "AIR" and removes the other two, whichever of them the list holds and in
\* whatever order.
C23_StrictFilterKeepsAirOnly ==
    (/\ direct.pc = "returned"
     /\ direct.fn = "_filter_strict_matches"
     /\ direct.search_title = T_AIR)
        => direct.filtered = SelectSeq(direct.matches, LAMBDA m : m.title = T_AIR)

\* ------------------------------------------------------------ Claim C24

\* C24: status by duplicate partition. When an entry's search returned and
\* neither the scoring nor the duplicate check raised, the outcome emitted for
\* the entry is 'duplicate' iff at least one candidate has a confidence of
\* MIN_CONFIDENCE or more and check_duplicate reports every such candidate,
\* 'partial_duplicate' iff it reports some and not all of them, and 'success'
\* iff there is such a candidate and it reports none; with one of these three
\* statuses the numbers in the message add up to the length of the outcome's
\* match list, and the message ends in " [cached search]" iff the search was
\* answered from the cache.
C24_StatusByDuplicatePartition ==
    [][(Len(w_results') = Len(w_results) + 1 /\ last'.valid /\ last'.entry = Len(w_results')
            /\ ~last'.raised /\ last'.fault = "none") =>
        LET r == w_results'[Len(w_results')]
            scored == ScoreAll(kind, last'.titles, last'.matches)
            survive == { k \in 1..Len(scored) : FracLE(MinConfidence, ConfOf(scored[k])) }
            dups == { k \in survive :
                        CheckDuplicate(scored[k], kind, added_in_session, store).is_dup }
            new == survive \ dups
            Sum(c) == IF Len(c) = 1 THEN c[1] ELSE c[1] + c[2]
        IN  /\ r.status = "duplicate" <=> (survive # {} /\ new = {})
            /\ r.status = "partial_duplicate" <=> (dups # {} /\ new # {})
            /\ r.status = "success" <=> (survive # {} /\ dups = {})
            /\ r.status \in {"duplicate", "partial_duplicate", "success"} =>
                  /\ Sum(r.counts) = Len(r.matches)
                  /\ r.cached <=> last'.was_cached]_vars

\* a search answered from the cache gave two candidates of sufficient
\* confidence, one of them in the store and one not
C24_Witness ==
    /\ last.valid
    /\ last.was_cached
    /\ last.fault = "none"
    /\ last.entry <= Len(w_results)
    /\ w_results[last.entry].status = "partial_duplicate"
    /\ w_results[last.entry].counts = << 1, 1 >>
    /\ w_results[last.entry].cached

\* ------------------------------------------------------------ Claim C25

\* C25: outcome invariants. In every outcome import_file has emitted: with
\* status success, partial_duplicate or duplicate the match list is not empty,
\* every match has a confidence of MIN_CONFIDENCE or more, no match has a
\* higher confidence than the one before it, and the outcome's confidence is
\* the first match's; with status no_match or error the match list is empty
\* and the outcome's confidence is 0.
C25_OutcomeInvariants ==
    LET Holds(r) ==
            /\ r.status \in {"success", "partial_duplicate", "duplicate"} =>
                  /\ r.matches # << >>
                  /\ \A k \in 1..Len(r.matches) :
                        /\ r.matches[k].conf # NoConf
                        /\ FracLE(MinConfidence, r.matches[k].conf)
                  /\ \A k \in 2..Len(r.matches) :
                        FracLE(r.matches[k].conf, r.matches[k - 1].conf)
                  /\ r.confidence = r.matches[1].conf
            /\ r.status \in {"no_match", "error"} =>
                  /\ r.matches = << >>
                  /\ r.confidence = Zero
    IN  /\ \A i \in 1..Len(w_results) : Holds(w_results[i])
        /\ \A i \in 1..Len(sigq) : sigq[i].sig = "result_ready" => Holds(sigq[i].result)

\* the search returned a better match after a worse one and a match below the
\* threshold: the outcome holds the first two, best first
C25_Witness ==
    /\ last.valid
    /\ last.entry <= Len(w_results)
    /\ Len(last.matches) > Len(w_results[last.entry].matches)
    /\ Len(w_results[last.entry].matches) >= 2
    /\ LET r == w_results[last.entry]
           scored == ScoreAll(kind, last.titles, last.matches)
       IN  /\ FracLT(r.matches[2].conf, r.matches[1].conf)
           /\ \E a, b \in 1..Len(scored) :
                 /\ a < b
                 /\ scored[a].id = r.matches[2].id
                 /\ scored[b].id = r.matches[1].id

\* ------------------------------------------------------------ Claim C26

\* C26: order of the duplicate checks. When check_duplicate returns for a
\* candidate whose id is not in the accepted-id set, and one stored record of
\* the kind holds the candidate's id while another has the candidate's title
\* and year, the description returned is that of the record holding the id,
\* wherever the two records stand in the store; and for a candidate whose id is
\* in the accepted-id set the description is the "[added in this import]" one.
C26_IdCheckPrecedesTitleYear ==
    (direct.pc = "returned" /\ direct.fn = "check_duplicate") =>
        LET match == direct.match
            ById(row) == /\ row.media_type = kind
                         /\ IdOf(kind, row) # NoId
                         /\ IdOf(kind, row) = match.id
            ByTitleYear(row) == /\ row.media_type = kind
                                /\ row.title = match.title
                                /\ PyEq(row.year, match.year)
        IN  /\ (match.id # NoId /\ match.id \in added_in_session) =>
                  /\ direct.result.is_dup
                  /\ direct.result.session
            /\ ~(match.id # NoId /\ match.id \in added_in_session) =>
                  \A x, y \in 1..Len(store) :
                      (x # y /\ ById(store[x]) /\ ByTitleYear(store[y])) =>
                          /\ direct.result.is_dup
                          /\ ~direct.result.session
                          /\ direct.result.title = store[x].title
                          /\ direct.result.year = store[x].year

\* ------------------------------------------------------------ Claim C27

\* C27: anime tier 1 short-circuit. In a search_media call none of whose remote
\* calls raised: when the offline index gave a hit and the search on the hit's
\* title returned at least one candidate after the strict filter, the only
\* remote call that follows is the fetch of the top candidate's relation
\* graph, no title search of a later tier is issued, and the call returns the
\* candidates of that search together with those of the relation graph.
C27_OfflineTierShortCircuit ==
    (/\ direct.pc \in {"remote", "returned"}
     /\ direct.fn = "search_media"
     /\ direct.trace # << >>
     /\ \A k \in 1..Len(direct.trace) : ~direct.trace[k].raised
     /\ direct.trace[1].tier = "offline"
     /\ FilterStrictMatches(direct.trace[1].query, direct.trace[1].resp) # << >>) =>
        LET hits == FilterStrictMatches(direct.trace[1].query, direct.trace[1].resp)
            SetOf(ms) == { ms[k] : k \in 1..Len(ms) }
            graph == UNION { SetOf(direct.trace[k].resp) : k \in 2..Len(direct.trace) }
        IN  /\ \A k \in 2..Len(direct.trace) : direct.trace[k].tier = "offline_rel"
            /\ direct.pc = "remote" => srch.tier = "offline_rel"
            /\ direct.pc = "returned" =>
                  /\ direct.result.pc = "return"
                  /\ SetOf(direct.result.all) = SetOf(hits) \cup graph

\* ------------------------------------------------------------ Claim C28

\* C28: anime tier gating. In a search_media call, the Romaji, Japanese,
\* cleaned-English and Chinese searches are each issued only when nothing has
\* been collected; when the English search returns a candidate that passes the
\* strict filter, the fetch of a relation graph follows and nothing follows
\* that fetch; the Romaji search is issued only for a Romaji title that is not
\* the English title, and the Chinese search only for a Chinese title that
\* holds an ASCII letter.
C28_TierGating ==
    (direct.pc \in {"remote", "returned"} /\ direct.fn = "search_media") =>
        LET \* the remote calls issued so far, the one in flight last
            issued == IF direct.pc = "remote"
                      THEN Append([k \in 1..Len(direct.trace) |->
                                      [tier |-> direct.trace[k].tier,
                                       all |-> direct.trace[k].all]],
                                  [tier |-> srch.tier, all |-> srch.all])
                      ELSE [k \in 1..Len(direct.trace) |->
                               [tier |-> direct.trace[k].tier, all |-> direct.trace[k].all]]
            titles == direct.titles
        IN  /\ \A k \in 1..Len(issued) :
                  /\ issued[k].tier \in {"romaji", "japanese", "cleaned", "chinese"} =>
                        issued[k].all = << >>
                  /\ issued[k].tier = "romaji" => titles.romaji # titles.english
                  /\ issued[k].tier = "chinese" =>
                        \E i \in 1..Len(titles.chinese) :
                            titles.chinese[i] \in AsciiUpper \cup AsciiLower
            /\ \A k \in 1..Len(direct.trace) :
                  (/\ direct.trace[k].tier = "english"
                   /\ ~direct.trace[k].raised
                   /\ FilterStrictMatches(direct.trace[k].query, direct.trace[k].resp) # << >>) =>
                      /\ Len(issued) = k + 1
                      /\ issued[k + 1].tier = "english_rel"

\* the English search found nothing and the Romaji search one candidate: the
\* call returned without a search for the Japanese title or for the Chinese
\* title, which holds an ASCII letter
C28_Witness ==
    /\ direct.pc = "returned"
    /\ direct.fn = "search_media"
    /\ Len(direct.trace) = 2
    /\ direct.trace[1].tier = "english"
    /\ direct.trace[2].tier = "romaji"
    /\ Len(direct.result.all) = 1
    /\ Truthy(direct.titles.japanese)
    /\ direct.titles.chinese = T_hanzi_a

\* ------------------------------------------------------------ Claim C29

\* C29: the list an anime search_media call returns, from whatever strategies
\* and relation graphs it was collected or from the cache, holds no two
\* candidates of the same id.
C29_NoTwoCandidatesOfOneId ==
    (direct.pc = "returned" /\ direct.fn = "search_media" /\ direct.result.pc = "return") =>
        \A i, j \in 1..Len(direct.result.all) :
            direct.result.all[i].id = direct.result.all[j].id => i = j

\* the second call is answered from the cache with the three candidates of the
\* first call, whose relation graph held a candidate the search had returned
C29_Witness ==
    /\ direct.pc = "returned"
    /\ direct.fn = "search_media"
    /\ direct.round = 2
    /\ direct.result.cached
    /\ Len(direct.result.all) = 3

\* ------------------------------------------------------------ Claim C30

\* C30 as stated: a Movie or TV search that is not answered from the cache
\* issues its remote call without sleeping for the time left since the
\* service's previous call
C30_NoMinimumInterval ==
    [][(kind # "Anime" /\ w_pc = "run" /\ w_pc' = "call") => clock'.slept = 0]_vars

\* C30 amended: the Movie and TV services keep the minimum interval of 2.5
\* seconds. The step that issues the remote call of a Movie or TV search comes
\* out of _rate_limit_wait, which sleeps for what is left of 2.5 seconds since
\* the service's previous call, so that two consecutive calls are at least 2.5
\* seconds apart.
C30_MovieTvPacing ==
    /\ [](kind # "Anime" => clock.gap >= RateLimitDelay)
    /\ [][(kind # "Anime" /\ w_pc = "run" /\ w_pc' = "call") =>
            /\ srch'.tier = "tmdb"
            /\ clock'.elapsed = 0
            /\ clock'.gap >= RateLimitDelay
            /\ clock'.slept + clock.elapsed >= RateLimitDelay]_vars

\* the TMDB search of the second entry, issued after a sleep for a part of the
\* delay, the rest having passed since the search of the first entry
C30_Witness ==
    /\ kind # "Anime"
    /\ w_pc = "call"
    /\ w_i = 2
    /\ srch.tier = "tmdb"
    /\ clock.elapsed = 0
    /\ clock.slept \in 1..(RateLimitDelay - 1)
    /\ clock.gap = RateLimitDelay

\* ------------------------------------------------------------ Claim C31

\* C31 as stated: the progress notification of entry i is emitted after the
\* outcome of entry i, so in the sequence of callbacks at least i outcomes
\* stand before the notification of entry i
C31_ProgressAfterOutcome ==
    FileParses(w_file) =>
        \A p \in 1..Len(events) :
            events[p].type = "progress" =>
                Cardinality({ q \in 1..(p - 1) : events[q].type = "result" })
                    >= events[p].current

\* C31 amended: for every entry i of a run the progress notification (i,
\* total, first 50 characters of the entry) is emitted before entry i is
\* processed: after the outcome of entry i - 1 and before the outcome of entry
\* i, exactly once per entry and with i increasing from 1 to total.
C31_ProgressBeforeOutcome ==
    FileParses(w_file) =>
        LET IsProgress(e) == e.type = "progress"
            progress == SelectSeq(events, IsProgress)
            total == Len(w_file.entries)
            First50(entry) == [k \in 1..(IF Len(entry) < 50 THEN Len(entry) ELSE 50) |->
                                 entry[k]]
        IN  /\ \A i \in 1..Len(progress) :
                  /\ progress[i].current = i
                  /\ progress[i].total = total
                  /\ progress[i].text = First50(w_file.entries[i])
            /\ \A p \in 1..Len(events) :
                  /\ events[p].type = "progress" => p = 2 * events[p].current - 1
                  /\ events[p].type = "result" => p % 2 = 0
            /\ Len(progress) <= total
            /\ w_pc = "returned" => Len(progress) = total

\* a run over a short entry and an entry of 100 characters has returned
C31_Witness ==
    /\ w_pc = "returned"
    /\ Len(w_file.entries) = 2
    /\ Len(w_file.entries[2]) > 50
    /\ Len(events) = 4
    /\ events[3].type = "progress"
    /\ Len(events[3].text) = 50
    /\ events[4].type = "result"

\* ------------------------------------------------------------ Claim C32

\* the entry has no bracket that survives the technical filter: it has no
\* brackets at all, or every one of them is discarded
FallbackEntry(entry) == SelectNonTechnical(FindBrackets(entry)) = << >>

AllEmptyTitles(titles) ==
    ~Truthy(titles.english) /\ ~Truthy(titles.romaji)
    /\ ~Truthy(titles.japanese) /\ ~Truthy(titles.chinese)

\* C32: when the anime parser falls back to separator splitting (the entry
\* has no brackets, or all its brackets are technical), an English/Romaji
\* title is assigned only if the entry is under 100 characters and the
\* cleaned result is longer than 2 characters; an entry of 100 or more
\* characters yields an all-empty title set.
C32_FallbackLengthLimit ==
    (/\ direct.pc = "returned"
     /\ direct.fn = "parse_titles_from_entry"
     /\ kind = "Anime"
     /\ FallbackEntry(direct.entry))
        => /\ Truthy(direct.titles.english) \/ Truthy(direct.titles.romaji)
                => /\ Len(direct.entry) < 100
                   /\ Len(direct.titles.english) > 2
                   /\ direct.titles.romaji = direct.titles.english
           /\ Len(direct.entry) >= 100 => AllEmptyTitles(direct.titles)

\* the part of C32 that the code keeps: an entry without any bracket gets a
\* title only under 100 characters, and a cleaned result of 2 characters or
\* fewer is never a title
C32_NoBracketLimit ==
    (/\ direct.pc = "returned"
     /\ direct.fn = "parse_titles_from_entry"
     /\ kind = "Anime"
     /\ FallbackEntry(direct.entry))
        => /\ Truthy(direct.titles.english)
                => Len(direct.titles.english) > 2 /\ direct.titles.romaji = direct.titles.english
           /\ (FindBrackets(direct.entry) = << >> /\ Len(direct.entry) >= 100)
                => AllEmptyTitles(direct.titles)

\* ------------------------------------------------------------ Claim C33

\* the rule of the strict filter for one title variant, both texts lowercased
\* and stripped
StrictRule(search, variant) ==
    LET words == WordCount(search)
        difference == Abs(WordCount(variant) - words)
    IN  \/ words = 1 /\ RatioAtLeast(search, variant, 85) /\ difference <= 1
        \/ words = 2 /\ RatioAtLeast(search, variant, 80) /\ difference <= 1
        \/ words >= 3 /\ RatioAtLeast(search, variant, 70)

\* some non-empty title variant of the candidate passes the rule
StrictRuleKeeps(search_title, m) ==
    \E v \in { m.title, m.romaji_title, m.native_title } :
        /\ Truthy(v)
        /\ StrictRule(Strip(Lower(search_title)), Strip(Lower(v)))

\* C33: _filter_strict_matches called with a search title of one or more
\* words keeps a candidate iff one of its non-empty title variants (English,
\* Romaji, native) passes against the lowercased search title: ratio >= 85
\* and word-count difference <= 1 for one word, ratio >= 80 and difference
\* <= 1 for two words, ratio >= 70 for three or more words; and the output
\* of any call is a sub-sequence of the input, in the input's order, each
\* candidate at most once.
C33_StrictFilterRule ==
    (direct.pc = "returned" /\ direct.fn = "_filter_strict_matches")
        => /\ WordCount(direct.search_title) >= 1
                => direct.filtered =
                     SelectSeq(direct.matches,
                               LAMBDA m : StrictRuleKeeps(direct.search_title, m))
           /\ direct.filtered =
                SelectSeq(direct.matches,
                          LAMBDA m : \E i \in 1..Len(direct.filtered) : direct.filtered[i] = m)
           /\ \A i, j \in 1..Len(direct.filtered) :
                direct.filtered[i] = direct.filtered[j] => i = j

\* a two-word search title over three candidates: the one with the same
\* title is kept, the one whose Romaji title has a ratio of 80 or more but
\* four words is dropped, and so is the one without any title
C33_Witness ==
    /\ direct.pc = "returned"
    /\ direct.fn = "_filter_strict_matches"
    /\ direct.search_title = T_Air_Gear
    /\ direct.matches = << SpelledGear, Untitled, AirGear >>
    /\ RatioAtLeast(Lower(T_Air_Gear), Lower(T_A_i_r_Gear), 80)
    /\ direct.filtered = << AirGear >>

\* ------------------------------------------------------------ Claim C34

\* a non-empty search title equals the candidate's title up to case
ExactMatch(search, candidate) ==
    Truthy(search) /\ Truthy(candidate) /\ Lower(search) = Lower(candidate)

\* the score of one pair of titles: 0.7 if one holds the other, and 0.8
\* times the share of the words of both that they have in common
PairScores(search, candidate) ==
    LET s == Lower(search)
        c == Lower(candidate)
        s_words == WordSet(s)
        c_words == WordSet(c)
    IN  (IF Contains(s, c) \/ Contains(c, s) THEN { Frac(7, 10) } ELSE {})
        \cup { Frac(8 * Cardinality(s_words \cap c_words),
                    10 * Cardinality(s_words \cup c_words)) }

\* the scores of all pairs of a non-empty search title and a non-empty title
\* of the candidate, and 0.0
PartialScores(titles, match) ==
    UNION { PairScores(s, c) :
              s \in { t \in { titles.english, titles.romaji, titles.japanese } : Truthy(t) },
              c \in { t \in { match.title, match.romaji_title, match.native_title } : Truthy(t) } }
    \cup { Zero }

\* C34: calculate_confidence of the anime service: an exact case-insensitive
\* English match gives at least 0.95; an exact Romaji match or an exact
\* match of the Japanese title with the native title gives at least 0.90;
\* exact English and exact Japanese together give exactly 1.0; exact Romaji
\* without English, together with exact Japanese, gives exactly 0.98; and
\* only without any exact match is the score the greatest, over all pairs
\* of a search title and a candidate title, of 0.7 for containment and 0.8
\* times the Jaccard overlap of the words, which is 0.0 when nothing
\* matches.
C34_ConfidenceTiers ==
    (direct.pc = "returned" /\ direct.fn = "calculate_confidence")
        => LET english == ExactMatch(direct.titles.english, direct.match.title)
               romaji == ExactMatch(direct.titles.romaji, direct.match.romaji_title)
               japanese == ExactMatch(direct.titles.japanese, direct.match.native_title)
               scores == PartialScores(direct.titles, direct.match)
               c == direct.confidence
           IN  /\ english => FracLE(Frac(95, 100), c)
               /\ romaji \/ japanese => FracLE(Frac(90, 100), c)
               /\ english /\ japanese => c = One
               /\ romaji /\ ~english /\ japanese => c = Frac(98, 100)
               /\ english \/ romaji \/ japanese
                    => c \in { Frac(90, 100), Frac(95, 100), Frac(98, 100), One }
               /\ ~(english \/ romaji \/ japanese)
                    => c \in scores /\ \A x \in scores : FracLE(x, c)

\* a call without an exact match whose score comes from the word overlap, not
\* from the containment
C34_Witness ==
    /\ direct.pc = "returned"
    /\ direct.fn = "calculate_confidence"
    /\ direct.titles.english = T_Air_Gear
    /\ direct.titles.japanese = T_kana
    /\ direct.match.title = T_Air_Gear_AIR
    /\ direct.match.native_title = T_hanzi
    /\ direct.confidence = Frac(8, 10)

\* ------------------------------------------------------------ Claim C35

\* C35: at most one import run is in flight per import dialog and its
\* service: once start_import has started a thread, no second thread is
\* started before the first has returned, and the start control stays
\* disabled while a run is in flight.
C35_AtMostOneRunInFlight ==
    /\ RunsInFlight <= 1
    /\ RunsInFlight = 1 => ~import_button

\* ------------------------------------------------------------ Claim C36

\* C36: while an import run is in flight the accept actions (add all, add
\* selected) are disabled, so that no row is inserted and no id marked as
\* added, and manual matching is refused (import_in_progress is set), so
\* that no search_media call of the dialog writes the cache.
C36_NoReviewWritesDuringRun ==
    RunsInFlight >= 1 => (~add_buttons /\ import_in_progress)

\* ------------------------------------------------------------ Claim C37

\* two records of one media kind with the same external id, or with the same
\* title and the same non-null year
SameRecord(a, b) ==
    /\ a.media_type = b.media_type
    /\ \/ IdOf(a.media_type, a) # NoId /\ IdOf(a.media_type, a) = IdOf(b.media_type, b)
       \/ /\ a.title = b.title
          /\ a.year.typ # "none"
          /\ ColumnYear(a.year) = ColumnYear(b.year)

\* C37: add_items_batch with skip_duplicates = true probes each item inside
\* the batch's own transaction: an item of the same media kind and the same
\* external id (or the same title and non-null year) as an item inserted
\* earlier in the same batch is skipped and not inserted; an item that equals
\* no row of the transaction in this way is inserted; and on normal return
\* added + skipped is the number of items, the error count is 0 and the
\* transaction's rows are the store.
C37_BatchProbeSeesOwnInserts ==
    [][/\ (b_pc = "loop" /\ b_skip /\ b_idx' = b_idx + 1)
            => LET item == b_items[b_idx]
                   own == SubSeq(txn, Len(b_before) + 1, Len(txn))
               IN  /\ (\E k \in 1..Len(own) : SameRecord(own[k], item))
                        => /\ txn' = txn
                           /\ b_result' = [b_result EXCEPT !.skipped = @ + 1]
                   /\ (\A k \in 1..Len(txn) : ~SameRecord(txn[k], item))
                        => /\ txn' = Append(txn, [item EXCEPT !.year = ColumnYear(item.year)])
                           /\ b_result' = [b_result EXCEPT !.added = @ + 1]
       /\ (b_pc = "loop" /\ b_skip /\ b_pc' = "returned")
            => /\ b_result'.added + b_result'.skipped = Len(b_items)
               /\ b_result'.errors = 0
               /\ store' = txn
               /\ Len(store') = Len(b_before) + b_result'.added
      ]_vars

\* a batch of two movies with the same TMDB id under different titles has
\* returned over an empty store: the first inserted, the second skipped
C37_Witness ==
    /\ b_pc = "returned"
    /\ b_skip
    /\ b_before = << >>
    /\ b_items = << Item(T_a, IntYear(1999), "Movie", 1, NoId),
                    Item(T_b, IntYear(2000), "Movie", 1, NoId) >>
    /\ b_result = [added |-> 1, skipped |-> 1, errors |-> 0]
    /\ store = << Item(T_a, IntYear(1999), "Movie", 1, NoId) >>

\* ------------------------------------------------------------ Claim C38

\* C38: check_duplicate reports is_duplicate = true only when the candidate's
\* id is in the accepted-id set or a stored record of the service's own media
\* kind holds the candidate's id or has its title and year; a stored record
\* of another kind with the same id or the same title and year never makes
\* the candidate a duplicate.
C38_DuplicateWithinOwnKind ==
    (direct.pc = "returned" /\ direct.fn = "check_duplicate" /\ direct.result.is_dup)
        => \/ direct.match.id # NoId /\ direct.match.id \in added_in_session
           \/ \E i \in 1..Len(store) :
                /\ store[i].media_type = kind
                /\ \/ IdOf(kind, store[i]) # NoId /\ IdOf(kind, store[i]) = direct.match.id
                   \/ /\ store[i].title = direct.match.title
                      /\ store[i].year = direct.match.year

\* the TV service checked a candidate whose id, 1, a stored Movie holds as
\* its TMDB id, under the candidate's title: not a duplicate
C38_Witness ==
    /\ direct.pc = "returned"
    /\ direct.fn = "check_duplicate"
    /\ kind = "TV"
    /\ direct.match = M1
    /\ added_in_session = {}
    /\ store = << Item(T_ab, IntYear(1999), "Movie", 1, NoId) >>
    /\ ~direct.result.is_dup

\* ------------------------------------------------------------ Claim C39

\* the pass over an entry of a Movie or TV run ends in this step, its search
\* under the cache key of the entry searched before it, which was retrieved
\* from TMDB with another year
SameKeyOtherYear ==
    /\ kind # "Anime"
    /\ last.valid /\ last'.valid
    /\ last'.entry > last.entry
    /\ last.key # EmptyStr
    /\ last'.key = last.key
    /\ last'.titles.year # last.titles.year
    /\ last.stored

\* C39: the cache key is built from the best available title alone, without
\* the year. In a Movie or TV run the TMDB search is called with the entry's
\* title and year; when an entry's title normalizes to the key of an entry
\* searched before it with another year, the two cause a single remote call,
\* the one of the first, and the second receives from the cache the list
\* that call retrieved.
C39_CacheKeyWithoutYear ==
    [][ /\ (w_pc' = "call" /\ kind # "Anime") =>
              /\ srch'.tier = "tmdb"
              /\ srch'.query = w_titles'.title
              /\ srch'.year = YearArg(w_titles'.year)
        /\ (last'.valid /\ last' # last) =>
              last'.key = NormalizeTitleForCache([last'.titles EXCEPT
                              !.year = EmptyYear])
        /\ SameKeyOtherYear =>
              /\ last.calls = 1
              /\ last'.calls = 0
              /\ last'.was_cached
              /\ last'.matches = last.matches ]_vars

\* "ab (2000)" after "AB (1999)": TMDB answered the first search, made with
\* year 1999, with one record; the second entry got that list from the cache
C39_Witness ==
    /\ kind = "Movie"
    /\ w_pc = "run"
    /\ w_file.format = "ok"
    /\ w_file.entries = << T_AB_1999, T_ab_2000 >>
    /\ w_i = 3
    /\ last.valid
    /\ last.entry = 2
    /\ last.titles.year = StrYear(2000)
    /\ last.was_cached
    /\ last.calls = 0
    /\ last.matches = << M1 >>
    /\ Len(w_results) = 2
    /\ w_results[1].parsed_titles.year = StrYear(1999)
    /\ ~w_results[1].cached
    /\ w_results[2].cached
    /\ h_ops.searched = 2

\* ------------------------------------------------------------ Claim C40

\* only the generic 'title' key of the title set is filled
TitleOnly(t) ==
    /\ Truthy(t.title)
    /\ ~Truthy(t.english) /\ ~Truthy(t.romaji) /\ ~Truthy(t.japanese)
    /\ ~Truthy(t.chinese)

\* C40 as stated: an anime search_media call on a title set in which only the
\* generic 'title' key is filled issues no remote call, returns an empty
\* list and stores the empty list in the cache under the title's key
C40_TitleOnlySearchIsEmpty ==
    [][ (/\ kind = "Anime"
         /\ direct.pc = "called" /\ direct.fn = "search_media"
         /\ TitleOnly(direct.titles)) =>
            LET cache_key == NormalizeTitleForCache(direct.titles)
            IN  /\ direct'.pc = "returned"
                /\ direct'.trace = << >>
                /\ direct'.result.all = << >>
                /\ cache_key \in DOMAIN search_cache'
                /\ search_cache'[cache_key] = << >> ]_vars

\* C40: an anime search_media call on a title set in which only the generic
\* 'title' key is filled issues no remote call; if the title's key is in the
\* cache the call returns the cached list and leaves the cache as it is;
\* otherwise it returns an empty list, and stores the empty list in the cache
\* under the title's key if the key is not empty.
C40_TitleOnlySearchNoRemoteCall ==
    [][ (/\ kind = "Anime"
         /\ direct.pc = "called" /\ direct.fn = "search_media"
         /\ TitleOnly(direct.titles)) =>
            LET cache_key == NormalizeTitleForCache(direct.titles)
            IN  /\ direct'.pc = "returned"
                /\ direct'.trace = << >>
                /\ direct'.result.pc = "return"
                /\ IF cache_key # EmptyStr /\ cache_key \in DOMAIN search_cache
                   THEN /\ direct'.result.cached
                        /\ direct'.result.all = search_cache[cache_key]
                        /\ search_cache' = search_cache
                   ELSE /\ ~direct'.result.cached
                        /\ direct'.result.all = << >>
                        /\ IF cache_key # EmptyStr
                           THEN /\ DOMAIN search_cache' = DOMAIN search_cache \cup {cache_key}
                                /\ search_cache'[cache_key] = << >>
                                /\ \A k \in DOMAIN search_cache :
                                      search_cache'[k] = search_cache[k]
                           ELSE search_cache' = search_cache ]_vars

\* the first search of the service, with the offline index loaded, on the
\* term "ab" and the year 1999: it returned the empty list, which the cache
\* now holds under "ab"
C40_Witness ==
    /\ kind = "Anime"
    /\ offline_loaded
    /\ direct.pc = "returned"
    /\ direct.fn = "search_media"
    /\ direct.round = 1
    /\ direct.titles = [NoTitles EXCEPT !.title = T_ab, !.year = StrYear(1999)]
    /\ direct.trace = << >>
    /\ direct.result.all = << >>
    /\ ~direct.result.cached
    /\ DOMAIN search_cache = { T_ab }
    /\ search_cache[T_ab] = << >>

====
